---- MODULE Spec2Model ----
(***************************************************************************)
(* Model of the core of the SEO analyzer (src/filex2.py): the on-page      *)
(* crawler, the flat-table parser, the provider request helper, the        *)
(* site-audit issue summary, the paginated issue-detail aggregation,       *)
(* and the endpoints built on them.  In Spec one invocation of one         *)
(* operation runs at a time, in SpecConcurrent two run side by side; the   *)
(* answers of the fetched site and of the data provider are chosen by the  *)
(* environment.                                                            *)
(***************************************************************************)
EXTENDS Integers, Sequences, FiniteSets, TLC

VARIABLES
    pc,            \* "idle", "get_issue_details" (inside its while-loop) or "done"
    op,            \* the operation invoked
    arg,           \* its input
    http_log,      \* the HTTP requests issued by the invocation, in order
    served,        \* the answers to those requests, in order
    all_pages,     \* get_issue_details: the accumulator
    current_page,  \* get_issue_details: the page counter
    result,        \* the value returned to the caller
    raised         \* TRUE iff an exception left the operation

vars == <<pc, op, arg, http_log, served, all_pages, current_page, result, raised>>

----------------------------------------------------------------------------
(* Bounds of the model *)

MaxPages == 6      \* page requests followed inside one get_issue_details call
MaxPageSize == 2   \* records on one detail page
MaxTotal == 5      \* largest grand total the provider reports
MaxEntries == 2    \* entries of a snapshot response, all sections together
MaxTextLen == 5    \* characters of a text handed to parse_response
MaxNodes == 2      \* heading, image and text nodes of a fetched document
MaxDomains == 3    \* data lines of a referring-domains report
MaxIssues == 12    \* issues handed to generate_ai_recommendations

----------------------------------------------------------------------------
(* Values *)

\* Python values that may be None carry a tag
None == [t |-> "None"]
Str(s) == [t |-> "str", v |-> s]
NoArg == <<>>
EmptyObject == [k \in {} |-> 0]

RECURSIVE SeqsUpTo(_, _)
SeqsUpTo(S, n) ==
    IF n = 0 THEN {<<>>}
    ELSE LET shorter == SeqsUpTo(S, n - 1)
         IN  shorter \cup {Append(s, x) : s \in {t \in shorter : Len(t) = n - 1}, x \in S}

RECURSIVE Flatten(_)
Flatten(ss) == IF ss = <<>> THEN <<>> ELSE Head(ss) \o Flatten(Tail(ss))

\* control results of a modelled block of code
Raise(e) == [ctl |-> "raise", exc |-> e]
Return(v) == [ctl |-> "return", value |-> v]

----------------------------------------------------------------------------
(* Configuration *)

SITE_AUDIT_URL == "https://api.semrush.com/reports/v1"
PROJECT_ID == "26460775"

----------------------------------------------------------------------------
(* The HTTP client.  A request either fails in transport or is answered    *)
(* with a status and a body.                                               *)

NoTimeout == <<>>
Request(url, params, timeout) == [url |-> url, params |-> params, timeout |-> timeout]

NoBody == [t |-> "none"]
TransportFailure(k) == [kind |-> k, status |-> 0, body |-> NoBody]
HttpResponse(s, b) == [kind |-> "response", status |-> s, body |-> b]

\* a read timeout is only raised for a request that carries a timeout
TransportKinds(req) ==
    IF req.timeout = NoTimeout THEN {"ConnectionError"} ELSE {"ConnectionError", "Timeout"}

ErrorStatuses == {404, 500}

\* str(e) of the exceptions of the HTTP client
ExcMessage(e) ==
    CASE e = "Timeout" -> "Read timed out."
      [] e = "ConnectionError" -> "Max retries exceeded"
      [] e = "HTTPError 404" -> "404 Client Error"
      [] e = "HTTPError 500" -> "500 Server Error"
      [] e = "MissingSchema" -> "Invalid URL: No scheme supplied"
      [] OTHER -> e

\* requests.get followed by response.raise_for_status()
GetOrRaise(resp) ==
    IF resp.kind # "response" THEN Raise(resp.kind)
    ELSE IF resp.status >= 400 THEN Raise("HTTPError " \o ToString(resp.status))
    ELSE Return(resp)

\* response.json()
Json(resp) ==
    IF resp.body.t \in {"object", "array"} THEN Return(resp.body) ELSE Raise("JSONDecodeError")

NotJsonBody == [t |-> "notjson"]
ArrayBody == [t |-> "array"]
ObjectBody(o) == [t |-> "object", v |-> o]

----------------------------------------------------------------------------
(* get_issue_details *)

SnapshotIds == {Str("S1")}

\* the records the provider lists on a page: the i-th record of page p is <<p, i>>
PageData(page) == {[i \in 1 .. k |-> <<page, i>>] : k \in 0 .. MaxPageSize}
Totals == 0 .. MaxTotal

DetailObjects(page) ==
    {[data |-> d, total |-> t] : d \in PageData(page), t \in Totals}
        \cup {[data |-> d] : d \in PageData(page)}
        \cup {[total |-> t] : t \in Totals}
        \cup {EmptyObject}

DetailBodies(page) ==
    {NotJsonBody, ArrayBody} \cup {ObjectBody(o) : o \in DetailObjects(page)}

DetailResponses(req) ==
    {TransportFailure(k) : k \in TransportKinds(req)}
        \cup {HttpResponse(s, NoBody) : s \in ErrorStatuses}
        \cup {HttpResponse(200, b) : b \in DetailBodies(req.params.page)}

DetailUrl(project_id, snapshot_id, issue_id) ==
    <<SITE_AUDIT_URL, "/projects/", project_id, "/siteaudit/snapshot/", snapshot_id.v,
      "/issue/", ToString(issue_id)>>

\* data.get('total', 0)
GetTotal(data) == IF "total" \in DOMAIN data THEN data.total ELSE 0

GotAllPages_Strict(n, total_count) == n > total_count
GotAllPages_Never(n, total_count) == FALSE

\* len(all_pages) >= total_count
GotAllPages(n, total_count) == n >= total_count

Break_DropsPages(pages, data) ==
    [ctl |-> "return", all_pages |-> <<>>, value |-> <<<<>>, GetTotal(data)>>]

\* break, followed by: return all_pages, data.get('total', 0)
Break(pages, data) == [ctl |-> "return", all_pages |-> pages, value |-> <<pages, GetTotal(data)>>]
Continue(pages, page) == [ctl |-> "continue", all_pages |-> pages, current_page |-> page]

NextPage_Skips(page) == page + 2

\* current_page += 1
NextPage(page) == page + 1

\* the processing of a decoded page response inside the loop
ProcessPage(pages, page, body) ==
    IF body.t # "object"
    THEN Raise("AttributeError")
    ELSE LET data == body.v
         IN  IF "data" \in DOMAIN data
             THEN LET pages_data == data.data
                      total_count == GetTotal(data)
                  IN  IF pages_data = <<>>
                      THEN Break(pages, data)
                      ELSE LET extended == pages \o pages_data
                           IN  IF GotAllPages(Len(extended), total_count)
                               THEN Break(extended, data)
                               ELSE Continue(extended, NextPage(page))
             ELSE Break(pages, data)

\* one pass of the while-loop
LoopBody(pages, page, resp) ==
    LET got == GetOrRaise(resp)
    IN  IF got.ctl = "raise" THEN got
        ELSE LET js == Json(got.value)
             IN  IF js.ctl = "raise" THEN js ELSE ProcessPage(pages, page, js.value)

DetailsExcept_Retries(r, pages, page) ==
    IF r.ctl = "raise" THEN Continue(pages, page) ELSE r

\* the except clause: return [], 0
DetailsExcept(r, pages, page) == IF r.ctl = "raise" THEN Return(<<<<>>, 0>>) ELSE r

get_issue_details_step(pages, page, resp) ==
    DetailsExcept(LoopBody(pages, page, resp), pages, page)

----------------------------------------------------------------------------
(* The issue taxonomy *)

ISSUE_MAPPING ==
       1 :> "5xx errors"
    @@ 2 :> "4xx errors"
    @@ 3 :> "Title tag is missing or empty"
    @@ 4 :> "Blocked from crawling"
    @@ 6 :> "Duplicate title tag"
    @@ 7 :> "Duplicate content"
    @@ 8 :> "Broken internal links"
    @@ 9 :> "Pages not crawled"
    @@ 10 :> "DNS resolution issue"
    @@ 11 :> "We couldn't open the page's URL"
    @@ 13 :> "Broken internal images"
    @@ 15 :> "Duplicate meta descriptions"
    @@ 16 :> "Invalid robots.txt format"
    @@ 17 :> "Invalid sitemap.xml format"
    @@ 18 :> "Incorrect pages found in"
    @@ 19 :> "www resolve issues"
    @@ 20 :> "Viewport not configured"
    @@ 21 :> "Large HTML page size"
    @@ 22 :> "Missing canonical tags in AMP pages"
    @@ 26 :> "Non-secure pages"
    @@ 27 :> "Certificate Expiration"
    @@ 28 :> "Old security protocol version"
    @@ 29 :> "Certificate registered to incorrect"
    @@ 30 :> "Issues with mixed content"
    @@ 32 :> "Neither canonical URL nor 301 redirect from HTTP homepage"
    @@ 33 :> "Redirect chains and loops"
    @@ 34 :> "AMP Pages with HTML Issues"
    @@ 35 :> "AMP Pages with Style and Layout"
    @@ 36 :> "AMP Pages with Templating Issues"
    @@ 38 :> "Broken canonical URLs"
    @@ 39 :> "Multiple canonical URLs"
    @@ 40 :> "Meta refresh redirects"
    @@ 41 :> "Broken internal JavaScript and CSS"
    @@ 42 :> "Insecure encryption algorithms"
    @@ 43 :> "Sitemap file too large"
    @@ 44 :> "Malformed links"
    @@ 45 :> "Structured data that contains"
    @@ 46 :> "Viewport width not set"
    @@ 111 :> "Slow page load speed"
    @@ 12 :> "Broken external links"
    @@ 14 :> "Broken external images"
    @@ 31 :> "Links lead to HTTP pages for HTTPS"
    @@ 101 :> "Title element is too short"
    @@ 102 :> "Title element is too long"
    @@ 103 :> "Missing h1"
    @@ 104 :> "Multiple h1 tags"
    @@ 105 :> "Duplicate content in h1 and title"
    @@ 106 :> "Missing meta description"
    @@ 108 :> "Too many on-page links"
    @@ 109 :> "Temporary redirects"
    @@ 110 :> "Missing ALT attributes"
    @@ 112 :> "Low text to HTML ratio"
    @@ 113 :> "Too many URL parameters"
    @@ 114 :> "Missing hreflang and lang attributes"
    @@ 115 :> "Encoding not declared"
    @@ 116 :> "Doctype not declared"
    @@ 117 :> "Low word count"
    @@ 120 :> "Incompatible plugins used"
    @@ 121 :> "Frames used"
    @@ 122 :> "Underscores in URL"
    @@ 123 :> "Nofollow attributes in internal links"
    @@ 124 :> "Sitemap.xml not specified in"
    @@ 125 :> "Sitemap.xml not found"
    @@ 126 :> "HTTPS encryption not used"
    @@ 127 :> "No SNI support"
    @@ 128 :> "HTTP URLs in sitemap.xml for HTTPS"
    @@ 129 :> "Uncompressed pages"
    @@ 130 :> "Disallowed internal resources"
    @@ 131 :> "Uncompressed JavaScript and CSS"
    @@ 132 :> "Uncached JavaScript and CSS files"
    @@ 133 :> "Too large JavaScript and CSS total"
    @@ 134 :> "Too many JavaScript and CSS files"
    @@ 135 :> "Unminified JavaScript and CSS files"
    @@ 136 :> "Warning - Too long URLs"
    @@ 137 :> "Llms.txt not found"
    @@ 201 :> "Too long URLs"
    @@ 202 :> "Nofollow attributes in external links"
    @@ 203 :> "Robots.txt not found"
    @@ 205 :> "No HSTS support"
    @@ 206 :> "Orphaned pages (Google Analytics)"
    @@ 207 :> "Orphaned sitemap pages"
    @@ 208 :> "Pages have high Document"
    @@ 209 :> "Blocked by X-Robots-Tag: noindex HTTP header"
    @@ 210 :> "Disallowed external resources"
    @@ 211 :> "Broken external JavaScript and CSS"
    @@ 212 :> "Page crawl depth"
    @@ 213 :> "Pages with only one internal link"
    @@ 214 :> "Permanent redirects"
    @@ 215 :> "Resources formatted as page links"
    @@ 216 :> "Links with no anchor text"
    @@ 217 :> "Links with non-descriptive anchor"
    @@ 218 :> "External pages or resources with 403 HTTP status code"
    @@ 219 :> "Llms.txt has formatting issues"
    @@ 220 :> "Too much content"
    @@ 221 :> "Outdated content"
    @@ 222 :> "Low semantic HTML usage"
    @@ 223 :> "Content not optimized"

IssueName_NoFallback(issue_id) ==
    IF issue_id \in DOMAIN ISSUE_MAPPING THEN ISSUE_MAPPING[issue_id] ELSE "None"

\* ISSUE_MAPPING.get(issue_id, f"Unknown Issue {issue_id}")
IssueName(issue_id) ==
    IF issue_id \in DOMAIN ISSUE_MAPPING
    THEN ISSUE_MAPPING[issue_id]
    ELSE "Unknown Issue " \o ToString(issue_id)

----------------------------------------------------------------------------
(* get_all_issues_summary *)

EntryIds == {101, 9999}
EntryCounts == {-1, 0, 2}
EntryDeltas == {-1}

WellFormedEntries ==
    {[id |-> i, count |-> c, delta |-> d] : i \in EntryIds, c \in EntryCounts, d \in EntryDeltas}
        \cup {[id |-> i, count |-> c] : i \in EntryIds, c \in EntryCounts}
\* entries that lack 'id' or 'count'
MalformedEntries == {[count |-> 2], [id |-> 101]}
\* an entry whose 'count' is JSON null: count_is names what stands in place of the number
NonComparableEntries == {[id |-> 101, count |-> 0, count_is |-> "null"]}
Entries == WellFormedEntries \cup MalformedEntries \cup NonComparableEntries

NullValue == [t |-> "null"]
ArrayValue(s) == [t |-> "array", v |-> s]

\* what a section of the response may hold, with at most n entries
SectionValues(n) == {NullValue} \cup {ArrayValue(s) : s \in SeqsUpTo(Entries, n)}
\* a key of the response: absent (<<>>) or present with a value (<<x>>)
SectionChoices(n) == {<<>>} \cup {<<x>> : x \in SectionValues(n)}
\* the snapshot_id of a response: absent, an id, or the empty string
SnapshotChoices == {<<>>} \cup {<<x>> : x \in SnapshotIds \cup {Str("")}}
ChoiceLen(c) == IF c = <<>> \/ c[1].t # "array" THEN 0 ELSE Len(c[1].v)
Field(key, c) == IF c = <<>> THEN EmptyObject ELSE key :> c[1]

\* a JSON object a snapshot request may be answered with
SummaryObject(sid, e, w, n) ==
    Field("snapshot_id", sid) @@ Field("errors", e) @@ Field("warnings", w)
        @@ Field("notices", n)

\* the answers that are no JSON object
SummaryFailures(req) ==
    {TransportFailure(k) : k \in TransportKinds(req)}
        \cup {HttpResponse(s, NoBody) : s \in ErrorStatuses}
        \cup {HttpResponse(200, b) : b \in {NotJsonBody, ArrayBody}}

SummaryUrl(project_id) == <<SITE_AUDIT_URL, "/projects/", project_id, "/siteaudit/snapshot">>

IssueRecord_BandSeverity(entry, severity) ==
    [issue_id |-> entry.id,
     issue_name |-> IssueName(entry.id),
     severity |-> IF entry.id >= 200 THEN "Notice" ELSE IF entry.id >= 100 THEN "Warning" ELSE "Error",
     count |-> entry.count,
     delta |-> IF "delta" \in DOMAIN entry THEN entry.delta ELSE 0]

\* the dictionary appended for one entry
IssueRecord(entry, severity) ==
    [issue_id |-> entry.id,
     issue_name |-> IssueName(entry.id),
     severity |-> severity,
     count |-> entry.count,
     delta |-> IF "delta" \in DOMAIN entry THEN entry.delta ELSE 0]

IsIssue_NonZero(count) == count # 0

\* if count > 0
IsIssue(count) == count > 0

RECURSIVE ProcessEntries_SkipsMalformed(_, _, _)
ProcessEntries_SkipsMalformed(entries, severity, issues_data) ==
    IF entries = <<>> THEN Return(issues_data)
    ELSE LET entry == Head(entries)
             usable == {"id", "count"} \subseteq DOMAIN entry /\ "count_is" \notin DOMAIN entry
         IN  ProcessEntries_SkipsMalformed(Tail(entries), severity,
                                           IF usable /\ IsIssue(entry.count)
                                           THEN Append(issues_data, IssueRecord(entry, severity))
                                           ELSE issues_data)

\* the for-loop over one section
RECURSIVE ProcessEntries(_, _, _)
ProcessEntries(entries, severity, issues_data) ==
    IF entries = <<>> THEN Return(issues_data)
    ELSE LET entry == Head(entries)
         IN  IF "id" \notin DOMAIN entry \/ "count" \notin DOMAIN entry
             THEN Raise("KeyError")
             ELSE IF "count_is" \in DOMAIN entry
             THEN Raise("TypeError")
             ELSE ProcessEntries(Tail(entries), severity,
                                 IF IsIssue(entry.count)
                                 THEN Append(issues_data, IssueRecord(entry, severity))
                                 ELSE issues_data)

\* if '<section>' in data: for ... in data['<section>']
ProcessSection(data, key, severity, issues_data) ==
    IF key \notin DOMAIN data THEN Return(issues_data)
    ELSE IF data[key].t # "array" THEN Raise("TypeError")
    ELSE ProcessEntries(data[key].v, severity, issues_data)

\* data.get('snapshot_id')
GetSnapshotId(data) == IF "snapshot_id" \in DOMAIN data THEN data.snapshot_id ELSE None

\* the body of the try block
SummaryTry(resp) ==
    LET got == GetOrRaise(resp)
    IN  IF got.ctl = "raise" THEN got
        ELSE LET js == Json(got.value)
             IN  IF js.ctl = "raise" THEN js
                 ELSE IF js.value.t # "object" THEN Raise("AttributeError")
                 ELSE LET data == js.value.v
                          snapshot_id == GetSnapshotId(data)
                          errors == ProcessSection(data, "errors", "Error", <<>>)
                      IN  IF errors.ctl = "raise" THEN errors
                          ELSE LET warnings == ProcessSection(data, "warnings", "Warning",
                                                              errors.value)
                               IN  IF warnings.ctl = "raise" THEN warnings
                                   ELSE LET notices == ProcessSection(data, "notices", "Notice",
                                                                      warnings.value)
                                        IN  IF notices.ctl = "raise" THEN notices
                                            ELSE Return(<<notices.value, snapshot_id>>)

SummaryExcept_RequestErrorsOnly(r) ==
    IF r.ctl = "raise" /\ r.exc \notin {"KeyError", "TypeError", "AttributeError"}
    THEN Return(<<<<>>, None>>) ELSE r

\* the except clause: return [], None
SummaryExcept(r) == IF r.ctl = "raise" THEN Return(<<<<>>, None>>) ELSE r

get_all_issues_summary(resp) == SummaryExcept(SummaryTry(resp))

----------------------------------------------------------------------------
(* crawl_website_onpage *)

\* A string is a sequence of chunks of characters; only the chunk "http" begins
\* with the letters http.
HttpsPrefix == <<"http", "s", "://">>
Domains ==
    {<<"example.com">>,
     <<"http", "s", "://", "example.com">>,
     <<"http", "bin.org">>}

\* domain.startswith('http')
StartsWithHttp(domain) == domain # <<>> /\ domain[1] = "http"

\* url = domain if domain.startswith('http') else f'https://{domain}'
CrawlUrl(domain) == IF StartsWithHttp(domain) THEN domain ELSE HttpsPrefix \o domain

HasScheme(url) ==
    \/ Len(url) >= 2 /\ SubSeq(url, 1, 2) = <<"http", "://">>
    \/ Len(url) >= 3 /\ SubSeq(url, 1, 3) = HttpsPrefix

\* A long string is kept as its length.
TextOfLen(n) == [t |-> "str", len |-> n]

\* the document: the meta-description tag, the title element, and the heading,
\* image and text nodes, each inside the body or inside a non-content element
NonContent == {"script", "style", "nav", "footer", "header"}
MetaLens == {0, 149, 150, 160, 161}
TitleLens == {49, 50, 60, 61}
NoMeta == [tag |-> FALSE, content |-> <<>>]
MetaTag(c) == [tag |-> TRUE, content |-> c]
MetaChoices == {NoMeta, MetaTag(<<>>)} \cup {MetaTag(<<n>>) : n \in MetaLens}
NoTitle == [tag |-> FALSE, string |-> <<>>]
TitleTag(str) == [tag |-> TRUE, string |-> str]
TitleChoices ==
    {NoTitle, TitleTag(<<>>)} \cup {TitleTag(<<[len |-> n, words |-> 1]>>) : n \in TitleLens}
Node(tag, inside, alt, text, words) ==
    [tag |-> tag, inside |-> inside, alt |-> alt, text |-> text, words |-> words]
NodeChoices ==
    {Node("h1", c, "none", "Welcome", 1) : c \in {"body", "header"}}
        \cup {Node(h, "body", "none", "Section", 1) : h \in {"h2", "h3", "h4"}}
        \cup {Node("img", "body", a, "", 0) : a \in {"missing", "empty", "text"}}
        \cup {Node("img", "nav", a, "", 0) : a \in {"missing", "text"}}
        \cup {Node("p", "body", "none", "lorem", w) : w \in {299, 300, 999, 1000}}
        \cup {Node("p", "footer", "none", "legal", 300)}

Documents ==
    {[t |-> "html", meta |-> m, title |-> ti, nodes |-> ns] :
         m \in MetaChoices, ti \in TitleChoices, ns \in SeqsUpTo(NodeChoices, MaxNodes)}
RejectedMarkup == [t |-> "rejected"]

CRAWL_TIMEOUT == 10

CrawlResponses(req) ==
    IF HasScheme(req.url)
    THEN {TransportFailure(k) : k \in TransportKinds(req)}
             \cup {HttpResponse(s, NoBody) : s \in ErrorStatuses}
             \cup {HttpResponse(200, b) : b \in Documents \cup {RejectedMarkup}}
    ELSE {TransportFailure("MissingSchema")}

\* soup.find_all(tag)
FindAll(nodes, tag) == SelectSeq(nodes, LAMBDA n : n.tag = tag)

\* for script in soup([...]): script.decompose()
Decompose(nodes) == SelectSeq(nodes, LAMBDA n : n.inside \notin NonContent)

RECURSIVE SumWords(_)
SumWords(nodes) == IF nodes = <<>> THEN 0 ELSE Head(nodes).words + SumWords(Tail(nodes))

MetaDescStatus_Exclusive(meta_desc_length) ==
    IF 150 < meta_desc_length /\ meta_desc_length < 160 THEN "Good" ELSE "Needs Fix"

\* 'Good' if 150 <= meta_desc_length <= 160 else 'Needs Fix'
MetaDescStatus(meta_desc_length) ==
    IF 150 <= meta_desc_length /\ meta_desc_length <= 160 THEN "Good" ELSE "Needs Fix"

TitleStatus_Exclusive(title_length) ==
    IF 50 < title_length /\ title_length < 60 THEN "Good" ELSE "Needs Fix"

\* 'Good' if 50 <= title_length <= 60 else 'Needs Fix'
TitleStatus(title_length) ==
    IF 50 <= title_length /\ title_length <= 60 THEN "Good" ELSE "Needs Fix"

H1Status_AtLeastOne(h1_count) ==
    IF h1_count >= 1 THEN "Good" ELSE "Missing"

\* 'Good' if h1_count == 1 else 'Multiple' if h1_count > 1 else 'Missing'
H1Status(h1_count) ==
    IF h1_count = 1 THEN "Good"
    ELSE IF h1_count > 1 THEN "Multiple" ELSE "Missing"

ContentStatus_ThinUpTo300(word_count) ==
    IF word_count >= 1000 THEN "Good"
    ELSE IF word_count <= 300 THEN "Thin" ELSE "Moderate"

\* 'Good' if word_count >= 1000 else 'Thin' if word_count < 300 else 'Moderate'
ContentStatus(word_count) ==
    IF word_count >= 1000 THEN "Good"
    ELSE IF word_count < 300 THEN "Thin" ELSE "Moderate"

HasAlt_Present(img) == img.alt # "missing"

\* img.get('alt'): the attribute is there and its value is not the empty string
HasAlt(img) == img.alt = "text"

\* the dictionary returned for a parsed document
PageSignals(doc) ==
    LET has_meta == doc.meta.tag /\ doc.meta.content # <<>> /\ doc.meta.content[1] > 0
        meta_desc_length == IF has_meta THEN doc.meta.content[1] ELSE 0
        has_title == doc.title.tag /\ doc.title.string # <<>>
        title_length == IF has_title THEN doc.title.string[1].len ELSE 0
        h1_tags == FindAll(doc.nodes, "h1")
        h1_count == Len(h1_tags)
        content == Decompose(doc.nodes)
        word_count == (IF has_title THEN doc.title.string[1].words ELSE 0) + SumWords(content)
        images == FindAll(content, "img")
        images_with_alt == SelectSeq(images, HasAlt)
    IN  [meta_description |-> IF has_meta THEN TextOfLen(meta_desc_length) ELSE None,
         meta_desc_length |-> meta_desc_length,
         meta_desc_status |-> MetaDescStatus(meta_desc_length),
         title_tag |-> IF has_title THEN TextOfLen(title_length) ELSE None,
         title_length |-> title_length,
         title_status |-> TitleStatus(title_length),
         h1_count |-> h1_count,
         h1_status |-> H1Status(h1_count),
         h1_text |-> [i \in 1 .. h1_count |-> h1_tags[i].text],
         h2_count |-> Len(FindAll(doc.nodes, "h2")),
         h3_count |-> Len(FindAll(doc.nodes, "h3")),
         h4_count |-> Len(FindAll(doc.nodes, "h4")),
         word_count |-> word_count,
         content_status |-> ContentStatus(word_count),
         images_total |-> Len(images),
         images_without_alt |-> Len(images) - Len(images_with_alt),
         crawl_success |-> TRUE]

\* the body of the try block
CrawlTry(resp) ==
    LET got == GetOrRaise(resp)
    IN  IF got.ctl = "raise" THEN got
        ELSE IF got.value.body.t # "html" THEN Raise("ParserRejectedMarkup")
        ELSE Return(PageSignals(got.value.body))

CrawlExcept_KeepsSignals(r) ==
    IF r.ctl = "raise"
    THEN Return([crawl_success |-> FALSE, error |-> ExcMessage(r.exc),
                 word_count |-> 0, images_total |-> 0])
    ELSE r

\* the except clause: return {'crawl_success': False, 'error': str(e)}
CrawlExcept(r) ==
    IF r.ctl = "raise"
    THEN Return([crawl_success |-> FALSE, error |-> ExcMessage(r.exc)])
    ELSE r

crawl_website_onpage(resp) == CrawlExcept(CrawlTry(resp))

----------------------------------------------------------------------------
(* parse_response: a text is a sequence of characters *)

Whitespace == {" ", "\n"}
Chars == {"a", ";", "\n", " "}
Texts == SeqsUpTo(Chars, MaxTextLen)

Dict(f) == [t |-> "dict", v |-> f]
List(l) == [t |-> "list", v |-> l]

\* text.strip()
RECURSIVE LStrip(_)
LStrip(text) == IF text # <<>> /\ Head(text) \in Whitespace THEN LStrip(Tail(text)) ELSE text
RECURSIVE RStrip(_)
RStrip(text) ==
    IF text # <<>> /\ text[Len(text)] \in Whitespace
    THEN RStrip(SubSeq(text, 1, Len(text) - 1)) ELSE text
Strip_LeadingOnly(text) == LStrip(text)
Strip(text) == RStrip(LStrip(text))

\* text.split(sep)
RECURSIVE Split(_, _)
Split(text, sep) ==
    IF \E i \in 1 .. Len(text) : text[i] = sep
    THEN LET i == CHOOSE j \in 1 .. Len(text) :
                      text[j] = sep /\ \A k \in 1 .. j - 1 : text[k] # sep
         IN  <<SubSeq(text, 1, i - 1)>> \o Split(SubSeq(text, i + 1, Len(text)), sep)
    ELSE <<text>>

ZipDict_PadsMissing(headers, values) ==
    LET last(k) == CHOOSE i \in 1 .. Len(headers) :
                       headers[i] = k /\ \A j \in i + 1 .. Len(headers) : headers[j] # k
    IN  [k \in {headers[i] : i \in 1 .. Len(headers)} |->
             IF last(k) <= Len(values) THEN values[last(k)] ELSE <<>>]

\* dict(zip(headers, values)): pairs by position, a repeated header keeps its last value
ZipDict(headers, values) ==
    LET n == IF Len(headers) <= Len(values) THEN Len(headers) ELSE Len(values)
        last(k) == CHOOSE i \in 1 .. n : headers[i] = k /\ \A j \in i + 1 .. n : headers[j] # k
    IN  [k \in {headers[i] : i \in 1 .. n} |-> values[last(k)]]

parse_response_AlwaysList(text) ==
    LET lines == Split(Strip(text), "\n")
    IN  IF Len(lines) < 2 THEN None
        ELSE List([i \in 1 .. Len(lines) - 1 |->
                       ZipDict(Split(lines[1], ";"), Split(lines[i + 1], ";"))])

parse_response(text) ==
    LET lines == Split(Strip(text), "\n")
    IN  IF Len(lines) < 2 THEN None
        ELSE LET headers == Split(lines[1], ";")
             IN  IF Len(lines) = 2
                 THEN Dict(ZipDict(headers, Split(lines[2], ";")))
                 ELSE List([i \in 1 .. Len(lines) - 1 |->
                                ZipDict(headers, Split(lines[i + 1], ";"))])

----------------------------------------------------------------------------
(* make_request *)

BASE_URL == "https://api.semrush.com/"
PROVIDER_TIMEOUT == 30
ReportTypes == {"domain_rank"}

ERROR == <<"E", "R", "R", "O", "R">>
\* the word in upper, lower and mixed case, or no such word
Markers == {<<>>, ERROR, <<"e", "r", "r", "o", "r">>, <<"E", "r", "r", "o", "r">>}
Fragments == {<<>>, <<"a", ";", "a", "\n">>, <<"a", "\n", "a">>, <<"\n", "a", ";", "a">>}
ProviderTexts == {p \o m \o q : p \in Fragments, m \in Markers, q \in Fragments}
TextBody(text) == [t |-> "text", v |-> text]

\* str.upper()
UpperChar(c) ==
    CASE c = "a" -> "A"
      [] c = "e" -> "E"
      [] c = "r" -> "R"
      [] c = "o" -> "O"
      [] OTHER -> c
Upper(text) == [i \in 1 .. Len(text) |-> UpperChar(text[i])]

\* needle in text
Contains(needle, text) ==
    \E i \in 1 .. Len(text) - Len(needle) + 1 : SubSeq(text, i, i + Len(needle) - 1) = needle

MakeRequestResponses(req) ==
    {TransportFailure(k) : k \in TransportKinds(req)}
        \cup {HttpResponse(s, TextBody(<<>>)) : s \in ErrorStatuses}
        \cup {HttpResponse(200, TextBody(text)) : text \in ProviderTexts}

\* the body of the try block, and the return None after it
MakeRequestTry(resp) ==
    IF resp.kind # "response" THEN Raise(resp.kind)
    ELSE IF resp.status = 200 /\ ~Contains(ERROR, Upper(resp.body.v))
    THEN Return(parse_response(resp.body.v))
    ELSE Return(None)

MakeRequestExcept_Reraises(r) == r

\* except: pass, then return None
MakeRequestExcept(r) == IF r.ctl = "raise" THEN Return(None) ELSE r

make_request(resp) == MakeRequestExcept(MakeRequestTry(resp))

----------------------------------------------------------------------------
(* The site-audit endpoints *)

\* the snapshot answers the endpoints are exercised with: at most one entry, in
\* the errors section
BriefEntries ==
    {[id |-> 101, count |-> 2], [id |-> 9999, count |-> 2], [id |-> 101, count |-> 0],
     [id |-> 101]}
BriefSummaryObjects ==
    {SummaryObject(sid, e, <<>>, <<>>) :
         sid \in SnapshotChoices, e \in {<<>>} \cup {<<ArrayValue(<<x>>)>> : x \in BriefEntries}}
BriefSummaryAnswers(req) ==
    SummaryFailures(req) \cup {HttpResponse(200, ObjectBody(o)) : o \in BriefSummaryObjects}

Truthy_NotNone(snapshot_id) == snapshot_id # None

\* the truth value of a snapshot id in a condition: None and "" are false
Truthy(snapshot_id) == snapshot_id # None /\ snapshot_id # Str("")

NO_ISSUES_MESSAGE == "No issues found or error fetching issues"

get_site_audit_issues_EmptyIsSuccess(summary) ==
    IF Truthy(summary[2])
    THEN [success |-> TRUE, data |-> summary[1], snapshot_id |-> summary[2]]
    ELSE [success |-> FALSE, message |-> NO_ISSUES_MESSAGE]

\* the response of /api/site-audit/issues for the pair get_all_issues_summary returned
get_site_audit_issues(summary) ==
    IF summary[1] # <<>> /\ Truthy(summary[2])
    THEN [success |-> TRUE, data |-> summary[1], snapshot_id |-> summary[2]]
    ELSE [success |-> FALSE, message |-> NO_ISSUES_MESSAGE]

\* the issue_id of a request body: absent (<<>>) or a number
IssueIdChoices == {<<>>, <<0>>, <<101>>}

\* if not req.issue_id: None and 0 are both false
MissingIssueId(issue_id) == issue_id = <<>> \/ issue_id[1] = 0

\* raise HTTPException(400, "Issue ID is required")
HTTP_400 == [status_code |-> 400, detail |-> "Issue ID is required"]
NO_SNAPSHOT_MESSAGE == "Could not retrieve snapshot ID"

\* the name of the first listed issue with the requested id
RECURSIVE FindIssueName(_, _)
FindIssueName(issues, issue_id) ==
    IF issues = <<>> THEN "Unknown Issue"
    ELSE IF Head(issues).issue_id = issue_id THEN Head(issues).issue_name
    ELSE FindIssueName(Tail(issues), issue_id)

\* the response of /api/site-audit/issue-details once get_issue_details has returned
get_site_audit_issue_details(request, details) ==
    IF details[1] # <<>>
    THEN [success |-> TRUE, data |-> details[1], total |-> details[2],
          issue_name |-> FindIssueName(request.issues, request.issue_id),
          snapshot_id |-> request.snapshot_id]
    ELSE [success |-> FALSE,
          message |-> <<"No data found for issue ID ", ToString(request.issue_id)>>]

----------------------------------------------------------------------------
(* /api/backlinks/referring-domains *)

BACKLINKS_URL == "https://api.semrush.com/analytics/v1/"
HTTP_404 == [status_code |-> 404, detail |-> "Not found"]

\* a report of one column: the header domain_ascore and one score per data line,
\* with or without a newline at the end; a score is one element of the text
ScoreTokens == {"29", "30", "49", "50"}
RECURSIVE JoinLines(_)
JoinLines(lines) ==
    IF lines = <<>> THEN <<>> ELSE <<"\n", Head(lines)>> \o JoinLines(Tail(lines))
ReportTexts ==
    {<<"domain_ascore">> \o JoinLines(scores) \o tail :
         scores \in SeqsUpTo(ScoreTokens, MaxDomains), tail \in {<<>>, <<"\n">>}}

ReferringDomainsResponses(req) ==
    {TransportFailure(k) : k \in TransportKinds(req)}
        \cup {HttpResponse(s, TextBody(<<>>)) : s \in ErrorStatuses}
        \cup {HttpResponse(200, TextBody(text)) : text \in ReportTexts}

\* float(s)
Float(s) ==
    CASE s = <<"29">> -> 29
      [] s = <<"30">> -> 30
      [] s = <<"49">> -> 49
      [] s = <<"50">> -> 50

\* bool(result): None and the empty mapping are false
IsTruthy(parsed) ==
    /\ parsed.t # "None"
    /\ parsed.t = "dict" => DOMAIN parsed.v # {}
    /\ parsed.t = "list" => parsed.v # <<>>

\* float(domain.get('domain_ascore', 0))
Score(domain) ==
    IF <<"domain_ascore">> \in DOMAIN domain THEN Float(domain[<<"domain_ascore">>]) ELSE 0

\* the for-loop over a list of mappings, and the response built after it
Analysis(domains) ==
    LET toxic == SelectSeq(domains, LAMBDA d : Score(d) < 30)
        potentially_toxic == SelectSeq(domains, LAMBDA d : Score(d) >= 30 /\ Score(d) < 50)
        healthy == SelectSeq(domains, LAMBDA d : Score(d) >= 50)
    IN  [total |-> Len(domains), toxic |-> Len(toxic),
         potentially_toxic |-> Len(potentially_toxic), healthy |-> Len(healthy)]

\* the body of the try block: iterating a single mapping yields its keys, which
\* are strings and have no get; float() raises on a value that is no number
ReferringDomainsTry(resp) ==
    IF resp.kind # "response" THEN Raise(resp.kind)
    ELSE IF resp.status # 200 THEN Raise("NotFound")
    ELSE LET parsed == parse_response(resp.body.v)
         IN  IF ~IsTruthy(parsed) THEN Raise("NotFound")
             ELSE IF parsed.t = "dict" THEN Raise("AttributeError")
             ELSE IF \E i \in DOMAIN parsed.v :
                         /\ <<"domain_ascore">> \in DOMAIN parsed.v[i]
                         /\ parsed.v[i][<<"domain_ascore">>] \notin {<<t>> : t \in ScoreTokens}
             THEN Raise("ValueError")
             ELSE Return([success |-> TRUE, data |-> parsed.v, analysis |-> Analysis(parsed.v)])

\* except: pass, then raise HTTPException(404, "Not found")
ReferringDomainsExcept(r) == IF r.ctl = "raise" THEN Raise(HTTP_404) ELSE r

get_referring_domains(resp) == ReferringDomainsExcept(ReferringDomainsTry(resp))

----------------------------------------------------------------------------
(* /api/complete-analysis *)

\* the answers each sub-request of the analysis is exercised with
AnalysisProviderAnswers ==
    {TransportFailure("Timeout"), HttpResponse(500, TextBody(<<>>)),
     HttpResponse(200, TextBody(<<"a", "\n", "a">>))}
AnalysisSiteAnswers ==
    {TransportFailure("Timeout"),
     HttpResponse(200, [t |-> "html", meta |-> NoMeta, title |-> NoTitle,
                        nodes |-> <<Node("h1", "body", "none", "Welcome", 1)>>])}
AnalysisSnapshotAnswers ==
    {TransportFailure("ConnectionError"),
     HttpResponse(200, ObjectBody(SummaryObject(<<Str("S1")>>, <<>>, <<>>, <<>>))),
     HttpResponse(200, ObjectBody(SummaryObject(<<Str("S1")>>,
                                                <<ArrayValue(<<[id |-> 101, count |-> 2]>>)>>,
                                                <<>>, <<>>)))}

\* results['backlinks_overview']: set from a 200 answer, set to None when the
\* request raises, and not set at all after any other status
BacklinksOverview(resp) ==
    IF resp.kind # "response" THEN "backlinks_overview" :> None
    ELSE IF resp.status = 200 THEN "backlinks_overview" :> parse_response(resp.body.v)
    ELSE EmptyObject

\* if issues: results['site_audit'] = {"issues": issues}
SiteAudit(issues) == IF issues # <<>> THEN "site_audit" :> [issues |-> issues] ELSE EmptyObject

\* the response of the endpoint for the answers to its six requests; an
\* exception of a called operation is not caught here
complete_analysis(overview, keywords, competitors, backlinks, site, snapshot) ==
    LET calls == <<make_request(overview), make_request(keywords), make_request(competitors),
                   crawl_website_onpage(site), get_all_issues_summary(snapshot)>>
        escaping == {i \in DOMAIN calls : calls[i].ctl = "raise"}
        results ==
            ("domain_overview" :> calls[1].value)
                @@ ("organic_keywords" :> calls[2].value)
                @@ ("competitors" :> calls[3].value)
                @@ BacklinksOverview(backlinks)
                @@ ("onpage_analysis" :> calls[4].value)
                @@ SiteAudit(calls[5].value[1])
    IN  IF escaping # {}
        THEN calls[CHOOSE i \in escaping : \A j \in escaping : i <= j]
        ELSE Return([success |-> TRUE, data |-> results])

----------------------------------------------------------------------------
(* generate_ai_recommendations: the site-audit section of the prompt *)

\* the 'issues' lists handed over in site_audit_data: severity and count of the
\* issue at a position repeat a short pattern
IssueLists ==
    LET SeverityPatterns ==
            {<<"Error">>, <<"Notice">>, <<"Notice", "Warning", "Error">>,
             <<"Warning", "Error">>, <<"Error", "Notice", "Notice">>}
        CountPatterns ==
            {<<1>>, <<1, 2, 3>>, <<3, 2, 1>>, <<5, 1>>, <<1, 2, 3, 4, 5, 6, 7>>}
        At(pattern, i) == pattern[((i - 1) % Len(pattern)) + 1]
    IN  {[i \in 1..n |-> [issue_id |-> i, issue_name |-> IssueName(i),
                          severity |-> At(sp, i), count |-> At(cp, i)]] :
            n \in 0..MaxIssues, sp \in SeverityPatterns, cp \in CountPatterns}

\* site_audit_data: None or a dict with the list
SiteAuditData == {<<>>} \cup {<<[issues |-> l]>> : l \in IssueLists}

SeverityRank(severity) ==
    IF severity = "Error" THEN 0 ELSE IF severity = "Warning" THEN 1 ELSE 2

SortKey_CountAscending(x) == <<SeverityRank(x.severity), x.count>>

\* key=lambda x: (rank of x.get('severity'), -x.get('count', 0))
SortKey(x) == <<SeverityRank(x.severity), -x.count>>

\* sorted(issues, key=...): key tuples are compared element by element, and an
\* issue is placed after every issue whose key is not larger (the sort is stable)
RECURSIVE Sorted(_)
Sorted(issues) ==
    IF issues = <<>> THEN <<>>
    ELSE LET TupleLess(a, b) == a[1] < b[1] \/ (a[1] = b[1] /\ a[2] < b[2])
             x == issues[Len(issues)]
             sorted == Sorted(SubSeq(issues, 1, Len(issues) - 1))
             n == Cardinality({i \in 1..Len(sorted) :
                                   ~TupleLess(SortKey(x), SortKey(sorted[i]))})
         IN  SubSeq(sorted, 1, n) \o <<x>> \o SubSeq(sorted, n + 1, Len(sorted))

TOP_ISSUES == 10

\* list[:n]
Slice(list, n) == SubSeq(list, 1, IF Len(list) <= n THEN Len(list) ELSE n)

\* the section is empty without issues; otherwise it holds the numbers of
\* issues and one line "- [severity] issue_name: count pages affected" for each
\* of the top issues
AuditContext(site_audit_data) ==
    IF site_audit_data = <<>> \/ site_audit_data[1].issues = <<>>
    THEN [shown |-> FALSE, total |-> 0, errors |-> 0, warnings |-> 0, notices |-> 0,
          top |-> <<>>]
    ELSE LET issues == site_audit_data[1].issues
             CountSeverity(severity) ==
                 Cardinality({i \in DOMAIN issues : issues[i].severity = severity})
             sorted_issues == Sorted(issues)
             top == Slice(sorted_issues, TOP_ISSUES)
         IN  [shown |-> TRUE,
              total |-> Len(issues),
              errors |-> CountSeverity("Error"),
              warnings |-> CountSeverity("Warning"),
              notices |-> CountSeverity("Notice"),
              top |-> [i \in DOMAIN top |->
                          [severity |-> top[i].severity,
                           issue_name |-> top[i].issue_name,
                           count |-> top[i].count]]]

\* what the completion call yields: an exception, a JSON list of some length,
\* or JSON that is not a list
MAX_RECS == 10
CompletionAnswers ==
    {[t |-> "raise", n |-> 0], [t |-> "object", n |-> 0]}
        \cup {[t |-> "list", n |-> n] : n \in {0, MAX_RECS - 1, MAX_RECS + 2}}

\* the prompt's site-audit section together with the list returned: the first
\* recommendations of the completion, or the fixed list after an exception
generate_ai_recommendations(site_audit_data, answer) ==
    LET Recs(source, n) == [i \in 1..n |-> [source |-> source, index |-> i]]
        try ==
            IF answer.t = "raise" THEN Raise("Exception")
            ELSE IF answer.t = "list"
                 THEN IF answer.n >= MAX_RECS
                      THEN Return(Slice(Recs("completion", answer.n), MAX_RECS))
                      ELSE Return(Recs("completion", answer.n))
                 ELSE Return(<<>>)
        r == IF try.ctl = "raise" THEN Return(Recs("fallback", MAX_RECS)) ELSE try
    IN  Return([audit_context |-> AuditContext(site_audit_data),
                recommendations |-> r.value])

----------------------------------------------------------------------------
(* The state machine *)

Init ==
    /\ pc = "idle"
    /\ op = "none"
    /\ arg = NoArg
    /\ http_log = <<>>
    /\ served = <<>>
    /\ all_pages = <<>>
    /\ current_page = 0
    /\ result = None
    /\ raised = FALSE

Finish(r) ==
    /\ pc' = "done"
    /\ result' = IF r.ctl = "raise" THEN r.exc ELSE r.value
    /\ raised' = (r.ctl = "raise")

IssueIds == {101}

CallGetIssueDetails ==
    /\ pc = "idle"
    /\ \E snapshot_id \in SnapshotIds, issue_id \in IssueIds :
           arg' = [project_id |-> PROJECT_ID, snapshot_id |-> snapshot_id,
                   issue_id |-> issue_id, limit |-> 100]
    /\ op' = "get_issue_details"
    /\ pc' = "get_issue_details"
    /\ all_pages' = <<>>
    /\ current_page' = 1
    /\ UNCHANGED <<http_log, served, result, raised>>

\* the value handed to the caller of get_issue_details: the endpoint builds its
\* response from it
Deliver(r) ==
    IF op = "get_site_audit_issue_details"
    THEN Return(get_site_audit_issue_details(arg, r.value))
    ELSE r

GetIssueDetailsPage ==
    /\ pc = "get_issue_details"
    /\ current_page <= MaxPages
    /\ LET req == Request(DetailUrl(arg.project_id, arg.snapshot_id, arg.issue_id),
                          [key |-> "SEMRUSH_API_KEY", limit |-> arg.limit, page |-> current_page], NoTimeout)
       IN  \E resp \in DetailResponses(req) :
               LET r == get_issue_details_step(all_pages, current_page, resp)
               IN  /\ http_log' = Append(http_log, req)
                   /\ served' = Append(served, resp)
                   /\ IF r.ctl = "continue"
                      THEN /\ all_pages' = r.all_pages
                           /\ current_page' = r.current_page
                           /\ UNCHANGED <<pc, result, raised>>
                      ELSE /\ Finish(Deliver(r))
                           /\ all_pages' = IF "all_pages" \in DOMAIN r
                                           THEN r.all_pages ELSE all_pages
                           /\ UNCHANGED current_page
    /\ UNCHANGED <<op, arg>>

GetAllIssuesSummary ==
    /\ pc = "idle"
    /\ LET req == Request(SummaryUrl(PROJECT_ID), [key |-> "SEMRUSH_API_KEY"], NoTimeout)
           Answered(resp) ==
               /\ http_log' = <<req>>
               /\ served' = <<resp>>
               /\ Finish(get_all_issues_summary(resp))
       IN  \/ \E resp \in SummaryFailures(req) : Answered(resp)
           \/ \E sid \in SnapshotChoices, e \in SectionChoices(MaxEntries) :
                  \E w \in SectionChoices(MaxEntries - ChoiceLen(e)) :
                      \E n \in SectionChoices(MaxEntries - ChoiceLen(e) - ChoiceLen(w)) :
                          Answered(HttpResponse(200, ObjectBody(SummaryObject(sid, e, w, n))))
    /\ op' = "get_all_issues_summary"
    /\ arg' = [project_id |-> PROJECT_ID]
    /\ UNCHANGED <<all_pages, current_page>>

GetSiteAuditIssues ==
    /\ pc = "idle"
    /\ LET req == Request(SummaryUrl(PROJECT_ID), [key |-> "SEMRUSH_API_KEY"], NoTimeout)
       IN  \E resp \in BriefSummaryAnswers(req) :
               /\ http_log' = <<req>>
               /\ served' = <<resp>>
               /\ Finish(Return(get_site_audit_issues(get_all_issues_summary(resp).value)))
    /\ op' = "get_site_audit_issues"
    /\ arg' = [project_id |-> PROJECT_ID]
    /\ UNCHANGED <<all_pages, current_page>>

GetSiteAuditIssueDetails ==
    /\ pc = "idle"
    /\ op' = "get_site_audit_issue_details"
    /\ \E issue_id \in IssueIdChoices :
           LET request == [project_id |-> PROJECT_ID, issue_id |-> issue_id, limit |-> 100]
               req == Request(SummaryUrl(PROJECT_ID), [key |-> "SEMRUSH_API_KEY"], NoTimeout)
           IN  IF MissingIssueId(issue_id)
               THEN /\ arg' = [request |-> request]
                    /\ Finish(Raise(HTTP_400))
                    /\ UNCHANGED <<http_log, served, all_pages, current_page>>
               ELSE \E resp \in BriefSummaryAnswers(req) :
                        LET summary == get_all_issues_summary(resp).value
                        IN  /\ http_log' = <<req>>
                            /\ served' = <<resp>>
                            /\ IF ~Truthy(summary[2])
                               THEN /\ arg' = [request |-> request]
                                    /\ Finish(Return([success |-> FALSE,
                                                      message |-> NO_SNAPSHOT_MESSAGE]))
                                    /\ UNCHANGED <<all_pages, current_page>>
                               ELSE /\ arg' = [request |-> request,
                                               project_id |-> PROJECT_ID,
                                               snapshot_id |-> summary[2],
                                               issue_id |-> issue_id[1],
                                               limit |-> 100,
                                               issues |-> summary[1]]
                                    /\ pc' = "get_issue_details"
                                    /\ all_pages' = <<>>
                                    /\ current_page' = 1
                                    /\ UNCHANGED <<result, raised>>

GetReferringDomains ==
    /\ pc = "idle"
    /\ \E domain \in Domains :
           LET req == Request(BACKLINKS_URL,
                              [key |-> "SEMRUSH_API_KEY", type |-> "backlinks_refdomains"],
                              <<PROVIDER_TIMEOUT>>)
           IN  \E resp \in ReferringDomainsResponses(req) :
                   /\ arg' = [domain |-> domain]
                   /\ http_log' = <<req>>
                   /\ served' = <<resp>>
                   /\ Finish(get_referring_domains(resp))
    /\ op' = "get_referring_domains"
    /\ UNCHANGED <<all_pages, current_page>>

CompleteAnalysis ==
    /\ pc = "idle"
    /\ LET domain == <<"example.com">>
           provider(type) == Request(BASE_URL, [key |-> "SEMRUSH_API_KEY", type |-> type],
                                     <<PROVIDER_TIMEOUT>>)
           backlinks_req == Request(BACKLINKS_URL,
                                    [key |-> "SEMRUSH_API_KEY", type |-> "backlinks_overview"],
                                    <<PROVIDER_TIMEOUT>>)
           site_req == Request(CrawlUrl(domain), EmptyObject, <<CRAWL_TIMEOUT>>)
           snapshot_req == Request(SummaryUrl(PROJECT_ID), [key |-> "SEMRUSH_API_KEY"], NoTimeout)
       IN  \E overview, keywords, competitors, backlinks \in AnalysisProviderAnswers :
               \E site \in AnalysisSiteAnswers, snapshot \in AnalysisSnapshotAnswers :
                   /\ arg' = [domain |-> domain]
                   /\ http_log' = <<provider("domain_rank"), provider("domain_organic"),
                                    provider("domain_organic_organic"), backlinks_req,
                                    site_req, snapshot_req>>
                   /\ served' = <<overview, keywords, competitors, backlinks, site, snapshot>>
                   /\ Finish(complete_analysis(overview, keywords, competitors, backlinks,
                                               site, snapshot))
    /\ op' = "complete_analysis"
    /\ UNCHANGED <<all_pages, current_page>>

GenerateAiRecommendations ==
    /\ pc = "idle"
    /\ \E site_audit_data \in SiteAuditData, answer \in CompletionAnswers :
           /\ arg' = [site_audit_data |-> site_audit_data]
           /\ Finish(generate_ai_recommendations(site_audit_data, answer))
    /\ op' = "generate_ai_recommendations"
    /\ UNCHANGED <<http_log, served, all_pages, current_page>>

CrawlWebsiteOnpage ==
    /\ pc = "idle"
    /\ \E domain \in Domains :
           LET req == Request(CrawlUrl(domain), EmptyObject, <<CRAWL_TIMEOUT>>)
           IN  \E resp \in CrawlResponses(req) :
                   /\ arg' = [domain |-> domain]
                   /\ http_log' = <<req>>
                   /\ served' = <<resp>>
                   /\ Finish(crawl_website_onpage(resp))
    /\ op' = "crawl_website_onpage"
    /\ UNCHANGED <<all_pages, current_page>>

ParseResponse ==
    /\ pc = "idle"
    /\ \E text \in Texts :
           /\ arg' = [text |-> text]
           /\ Finish(Return(parse_response(text)))
    /\ op' = "parse_response"
    /\ UNCHANGED <<http_log, served, all_pages, current_page>>

MakeRequest ==
    /\ pc = "idle"
    /\ \E report_type \in ReportTypes :
           LET req == Request(BASE_URL, [key |-> "SEMRUSH_API_KEY", type |-> report_type],
                              <<PROVIDER_TIMEOUT>>)
           IN  \E resp \in MakeRequestResponses(req) :
                   /\ arg' = [url |-> BASE_URL, report_type |-> report_type]
                   /\ http_log' = <<req>>
                   /\ served' = <<resp>>
                   /\ Finish(make_request(resp))
    /\ op' = "make_request"
    /\ UNCHANGED <<all_pages, current_page>>

ReturnToCaller ==
    /\ pc = "done"
    /\ pc' = "idle"
    /\ op' = "none"
    /\ arg' = NoArg
    /\ http_log' = <<>>
    /\ served' = <<>>
    /\ all_pages' = <<>>
    /\ current_page' = 0
    /\ result' = None
    /\ raised' = FALSE

Next ==
    \/ CallGetIssueDetails
    \/ GetIssueDetailsPage
    \/ GetAllIssuesSummary
    \/ GetSiteAuditIssues
    \/ GetSiteAuditIssueDetails
    \/ GetReferringDomains
    \/ CompleteAnalysis
    \/ GenerateAiRecommendations
    \/ CrawlWebsiteOnpage
    \/ ParseResponse
    \/ MakeRequest
    \/ ReturnToCaller

Spec == Init /\ [][Next]_vars

----------------------------------------------------------------------------
(* Properties of get_issue_details *)

InDetails == op = "get_issue_details"
LastServed == served[Len(served)]

\* a 200 answer whose JSON object has a 'data' field
IsPage(resp) ==
    /\ resp.kind = "response"
    /\ resp.status = 200
    /\ resp.body.t = "object"
    /\ "data" \in DOMAIN resp.body.v

PageRecords(resp) == IF IsPage(resp) THEN resp.body.v.data ELSE <<>>
ReportedTotal(resp) ==
    IF IsPage(resp) /\ "total" \in DOMAIN resp.body.v THEN resp.body.v.total ELSE 0

\* the records of the first n answers, in page order
ServedRecords(n) == Flatten([i \in 1 .. n |-> PageRecords(served[i])])

\* every answer so far is a non-empty page reporting the total T
WellBehaved(T) ==
    /\ Len(served) >= 1
    /\ \A i \in 1 .. Len(served) :
           /\ IsPage(served[i])
           /\ PageRecords(served[i]) # <<>>
           /\ "total" \in DOMAIN served[i].body.v
           /\ served[i].body.v.total = T

\* C1: against a provider that serves k non-empty pages whose sizes sum to the
\* reported total T, the aggregation keeps requesting while fewer than T records
\* are collected, and once the pages served sum to T it has returned exactly their
\* concatenation in page order together with T, after exactly k requests.
C1_AggregatesAllPages ==
    InDetails =>
        \A T \in 1 .. MaxTotal :
            (WellBehaved(T) /\ Len(ServedRecords(Len(served))) <= T) =>
                IF Len(ServedRecords(Len(served))) < T
                THEN /\ pc = "get_issue_details"
                     /\ current_page = Len(served) + 1
                ELSE /\ pc = "done"
                     /\ ~raised
                     /\ result = <<ServedRecords(Len(served)), T>>
                     /\ Len(result[1]) = T
                     /\ Len(http_log) = Len(served)

\* three pages of 2, 2 and 1 records with a reported total of 5
C1_Witness ==
    /\ InDetails
    /\ pc = "done"
    /\ WellBehaved(5)
    /\ Len(served) = 3
    /\ Len(PageRecords(served[1])) = 2
    /\ Len(PageRecords(served[2])) = 2
    /\ Len(PageRecords(served[3])) = 1
    /\ Len(result[1]) = 5

\* the answer i ends the aggregation: an empty page, or enough records collected
EndsAggregation(i) ==
    /\ IsPage(served[i])
    /\ \/ PageRecords(served[i]) = <<>>
       \/ Len(ServedRecords(i)) >= ReportedTotal(served[i])

\* C2: the pages requested are 1, 2, 3, ... without a gap or a repetition, and no
\* request follows an answer whose data is empty or after which the number of
\* collected records has reached the total that answer reports.
C2_ConsecutivePagesUntilEnd ==
    InDetails =>
        /\ \A i \in 1 .. Len(http_log) : http_log[i].params.page = i
        /\ Len(http_log) = Len(served)
        /\ \A i \in 1 .. Len(served) - 1 : ~EndsAggregation(i)
        /\ (pc = "get_issue_details" /\ Len(served) >= 1) => ~EndsAggregation(Len(served))

C2_Witness ==
    /\ InDetails
    /\ pc = "done"
    /\ Len(http_log) = 3
    /\ IsPage(LastServed)
    /\ PageRecords(LastServed) = <<>>
    /\ Len(ServedRecords(2)) = 3

\* how the aggregation ended
EndedOnEmptyPage == IsPage(LastServed) /\ PageRecords(LastServed) = <<>>
EndedOnMissingData ==
    /\ LastServed.kind = "response"
    /\ LastServed.status = 200
    /\ LastServed.body.t = "object"
    /\ "data" \notin DOMAIN LastServed.body.v
EndedOnFailedRequest == LastServed.kind # "response" \/ LastServed.status >= 400
EndedOnBadBody ==
    /\ LastServed.kind = "response"
    /\ LastServed.status = 200
    /\ LastServed.body.t # "object"

DetailsDone == InDetails /\ pc = "done" /\ Len(served) >= 1

\* C3 as stated: whenever the aggregation ends early (an empty page, an answer
\* without a 'data' field, or a failed request on a later page), the records of the
\* earlier pages are returned.
C3_PartialAlwaysReturned ==
    (DetailsDone /\ (EndedOnEmptyPage \/ EndedOnMissingData \/ EndedOnFailedRequest)) =>
        /\ ~raised
        /\ result[1] = ServedRecords(Len(served) - 1)

\* C3 amended: the records of the earlier pages are returned when the aggregation
\* ends on an empty page or on a JSON object without a 'data' field (with the total
\* of that answer, 0 when it has none); when it ends on a failed request or on a body
\* that is not a JSON object, the collected records are dropped and ([], 0) returned.
C3_PartialReturnedUnlessFailure ==
    DetailsDone =>
        /\ (EndedOnEmptyPage \/ EndedOnMissingData) =>
               /\ ~raised
               /\ result[1] = ServedRecords(Len(served) - 1)
               /\ result[2] = GetTotal(LastServed.body.v)
        /\ (EndedOnFailedRequest \/ EndedOnBadBody) =>
               /\ ~raised
               /\ result = <<<<>>, 0>>

\* two records collected, then an empty page
C3_Witness ==
    /\ DetailsDone
    /\ EndedOnEmptyPage
    /\ Len(served) = 2
    /\ Len(result[1]) = 2
    /\ result[2] = 5

----------------------------------------------------------------------------
(* Properties of get_all_issues_summary *)

SummaryDone == op = "get_all_issues_summary" /\ pc = "done"
Answer == served[1]
IsObjectAnswer ==
    /\ Answer.kind = "response"
    /\ Answer.status = 200
    /\ Answer.body.t = "object"
SectionKeys == {"errors", "warnings", "notices"}

\* every section present is an array of entries that have 'id' and a number as 'count'
WellFormedAnswer ==
    /\ IsObjectAnswer
    /\ \A key \in SectionKeys \cap DOMAIN Answer.body.v :
           /\ Answer.body.v[key].t = "array"
           /\ \A i \in 1 .. Len(Answer.body.v[key].v) :
                  /\ {"id", "count"} \subseteq DOMAIN Answer.body.v[key].v[i]
                  /\ "count_is" \notin DOMAIN Answer.body.v[key].v[i]

Listed(key, label) ==
    IF key \in DOMAIN Answer.body.v
    THEN [i \in 1 .. Len(Answer.body.v[key].v) |->
              [entry |-> Answer.body.v[key].v[i], label |-> label]]
    ELSE <<>>
HasPositiveCount(x) == x.entry.count > 0
\* the entries with count > 0: errors, then warnings, then notices
PositiveEntries ==
    SelectSeq(Listed("errors", "Error") \o Listed("warnings", "Warning")
                  \o Listed("notices", "Notice"), HasPositiveCount)

\* C4: for a well-formed snapshot response exactly the entries with count > 0 yield
\* a record, in the order errors, warnings, notices; each record carries the
\* entry's id and count, its delta (0 when the entry has none), and the response's
\* snapshot_id is returned alongside.
C4_OneRecordPerPositiveEntry ==
    (SummaryDone /\ WellFormedAnswer) =>
        /\ ~raised
        /\ result[2] = IF "snapshot_id" \in DOMAIN Answer.body.v
                       THEN Answer.body.v.snapshot_id ELSE None
        /\ Len(result[1]) = Len(PositiveEntries)
        /\ \A i \in 1 .. Len(PositiveEntries) :
               /\ result[1][i].issue_id = PositiveEntries[i].entry.id
               /\ result[1][i].count = PositiveEntries[i].entry.count
               /\ result[1][i].delta = IF "delta" \in DOMAIN PositiveEntries[i].entry
                                       THEN PositiveEntries[i].entry.delta ELSE 0

\* an error without delta is reported, a warning with count <= 0 is dropped
C4_Witness ==
    /\ SummaryDone
    /\ WellFormedAnswer
    /\ "errors" \in DOMAIN Answer.body.v
    /\ "warnings" \in DOMAIN Answer.body.v
    /\ Len(Answer.body.v.errors.v) = 1
    /\ Len(Answer.body.v.warnings.v) = 1
    /\ Answer.body.v.warnings.v[1].count <= 0
    /\ Len(result[1]) = 1
    /\ result[1][1].delta = 0
    /\ result[2] = Str("S1")

\* C5: the severity of every record is the label of the section its entry was
\* listed under, whatever the numeric band of its id.
C5_SeverityFromSection ==
    (SummaryDone /\ WellFormedAnswer) =>
        /\ Len(result[1]) = Len(PositiveEntries)
        /\ \A i \in 1 .. Len(PositiveEntries) :
               result[1][i].severity = PositiveEntries[i].label

\* id 101 listed under errors and under notices: two records, Error and Notice
C5_Witness ==
    /\ SummaryDone
    /\ WellFormedAnswer
    /\ Len(result[1]) = 2
    /\ result[1][1].issue_id = 101
    /\ result[1][2].issue_id = 101
    /\ result[1][1].severity = "Error"
    /\ result[1][2].severity = "Notice"

\* C6: the name of every record is the taxonomy's name of its id, and the literal
\* "Unknown Issue {id}" for an id the taxonomy lacks; an entry with an unknown id
\* is neither dropped nor a failure.
C6_NameFromTaxonomyOrFallback ==
    (SummaryDone /\ WellFormedAnswer) =>
        /\ ~raised
        /\ Len(result[1]) = Len(PositiveEntries)
        /\ \A i \in 1 .. Len(result[1]) :
               /\ result[1][i].issue_id = PositiveEntries[i].entry.id
               /\ result[1][i].issue_id \in DOMAIN ISSUE_MAPPING =>
                      result[1][i].issue_name = ISSUE_MAPPING[result[1][i].issue_id]
               /\ result[1][i].issue_id \notin DOMAIN ISSUE_MAPPING =>
                      result[1][i].issue_name
                          = "Unknown Issue " \o ToString(result[1][i].issue_id)
               /\ result[1][i].issue_id = 9999 =>
                      result[1][i].issue_name = "Unknown Issue 9999"
               /\ result[1][i].issue_id = 101 =>
                      result[1][i].issue_name = "Title element is too short"

C6_Witness ==
    /\ SummaryDone
    /\ WellFormedAnswer
    /\ Len(result[1]) = 2
    /\ result[1][1].issue_name = "Unknown Issue 9999"
    /\ result[1][2].issue_name = "Title element is too short"

\* the request failed, or its body is not what the aggregator expects
SummaryTransportError == Answer.kind # "response"
SummaryHttpError == Answer.kind = "response" /\ Answer.status >= 400
SummaryBadBody ==
    /\ Answer.kind = "response"
    /\ Answer.status = 200
    /\ ~WellFormedAnswer

\* C7: on a transport error, an HTTP error status, or a body that cannot be parsed
\* or is not of the expected shape, the result is ([], None) and nothing is raised.
C7_FailureGivesEmptyAndNone ==
    (SummaryDone /\ (SummaryTransportError \/ SummaryHttpError \/ SummaryBadBody)) =>
        /\ ~raised
        /\ result = <<<<>>, None>>

\* a snapshot id and a valid entry, followed by an entry without 'count'
C7_Witness ==
    /\ SummaryDone
    /\ IsObjectAnswer
    /\ "snapshot_id" \in DOMAIN Answer.body.v
    /\ "errors" \in DOMAIN Answer.body.v
    /\ Answer.body.v.errors.t = "array"
    /\ Len(Answer.body.v.errors.v) = 2
    /\ {"id", "count"} \subseteq DOMAIN Answer.body.v.errors.v[1]
    /\ Answer.body.v.errors.v[1].count > 0
    /\ "count" \notin DOMAIN Answer.body.v.errors.v[2]
    /\ result = <<<<>>, None>>

----------------------------------------------------------------------------
(* Properties of the core operations together *)

CoreOperations ==
    {"crawl_website_onpage", "parse_response", "make_request",
     "get_all_issues_summary", "get_issue_details"}
SingleRequestOperations == {"crawl_website_onpage", "make_request", "get_all_issues_summary"}

\* the request got no answer, or an HTTP error status
Failed(resp) == resp.kind # "response" \/ resp.status >= 400

\* C8: whatever the outcome of its external call (a timeout, a connection failure,
\* an HTTP error status, a body that is not JSON or not of the expected shape),
\* every core operation ends by returning a value of its result type; no exception
\* leaves it.
C8_NoExceptionEscapes ==
    (pc = "done" /\ op \in CoreOperations) =>
        /\ ~raised
        /\ op = "crawl_website_onpage" => "crawl_success" \in DOMAIN result
        /\ op \in {"parse_response", "make_request"} => result.t \in {"None", "dict", "list"}
        /\ op \in {"get_all_issues_summary", "get_issue_details"} => Len(result) = 2

\* a JSON array where an object is expected, on the second detail page
C8_Witness ==
    /\ InDetails
    /\ pc = "done"
    /\ Len(served) = 2
    /\ LastServed.kind = "response"
    /\ LastServed.status = 200
    /\ LastServed.body.t = "array"
    /\ ~raised

CrawlDone == op = "crawl_website_onpage" /\ pc = "done"
CrawlFailed == Failed(Answer) \/ Answer.body.t # "html"

\* C9: when the fetch or the parse fails, the result has exactly the two fields
\* crawl_success = False and error, and the error message is a non-empty string.
C9_FailureRecordOnly ==
    (CrawlDone /\ CrawlFailed) =>
        /\ ~raised
        /\ DOMAIN result = {"crawl_success", "error"}
        /\ result.crawl_success = FALSE
        /\ result.error # ""
        /\ Answer.kind = "Timeout" => result.error = ExcMessage("Timeout")

C9_Witness ==
    /\ CrawlDone
    /\ Answer.kind = "Timeout"
    /\ http_log[1].timeout = <<10>>
    /\ result = [crawl_success |-> FALSE, error |-> "Read timed out."]

\* C10: there is no retry. crawl_website_onpage, make_request and
\* get_all_issues_summary issue exactly one request per invocation whatever its
\* outcome; in get_issue_details no request follows a failed one; a failed request
\* ends the invocation with its failure result.
C10_NoRetry ==
    /\ (pc = "done" /\ op \in SingleRequestOperations) =>
           /\ Len(http_log) = 1
           /\ Len(served) = 1
           /\ ~raised
           /\ (op = "crawl_website_onpage" /\ Failed(Answer)) => result.crawl_success = FALSE
           /\ (op = "make_request" /\ Failed(Answer)) => result = None
           /\ (op = "get_all_issues_summary" /\ Failed(Answer)) => result = <<<<>>, None>>
    /\ InDetails =>
           /\ Len(http_log) = Len(served)
           /\ \A i \in 1 .. Len(served) - 1 : ~Failed(served[i])
           /\ (Len(served) >= 1 /\ Failed(LastServed)) =>
                  /\ pc = "done"
                  /\ ~raised
                  /\ result = <<<<>>, 0>>

\* the request for the second detail page fails
C10_Witness ==
    /\ InDetails
    /\ pc = "done"
    /\ Len(http_log) = 2
    /\ Failed(LastServed)
    /\ result = <<<<>>, 0>>

----------------------------------------------------------------------------
(* Properties of crawl_website_onpage *)

\* the page was fetched and parsed
CrawlClassified == CrawlDone /\ ~CrawlFailed

\* C11: the crawler requests the input unchanged when the input carries a scheme
\* prefix (http:// or https://), and requests "https://" followed by the input for
\* every input that lacks one, a host name beginning with the letters http
\* (httpbin.org) included.
C11_SchemePrependedWhenLacking ==
    CrawlDone =>
        http_log[1].url =
            IF HasScheme(arg.domain) THEN arg.domain ELSE HttpsPrefix \o arg.domain

\* the document the site answered with
Page == Answer.body

\* C12: for every classified page, h1_status is Missing exactly when h1_count is
\* 0, Good exactly when it is 1 and Multiple exactly when it is 2 or more, and
\* h1_count is the number of entries of h1_text (one per h1 element of the page).
C12_H1StatusFromCount ==
    CrawlClassified =>
        /\ result.h1_count \in Nat
        /\ result.h1_status = "Missing" <=> result.h1_count = 0
        /\ result.h1_status = "Good" <=> result.h1_count = 1
        /\ result.h1_status = "Multiple" <=> result.h1_count >= 2
        /\ result.h1_count = Len(result.h1_text)
        /\ result.h1_count = Len(FindAll(Page.nodes, "h1"))

\* two h1 elements, one of them inside the page header
C12_Witness ==
    /\ CrawlClassified
    /\ Page.nodes = <<Node("h1", "header", "none", "Welcome", 1),
                      Node("h1", "body", "none", "Welcome", 1)>>
    /\ result.h1_count = 2
    /\ result.h1_status = "Multiple"
    /\ result.h1_text = <<"Welcome", "Welcome">>

\* C13: for every word count w of a classified page, content_status is Thin
\* exactly when w < 300, Moderate exactly when 300 <= w < 1000 and Good exactly
\* when w >= 1000; 299 words are Thin, 300 and 999 are Moderate, 1000 are Good,
\* and one status, no more, applies to each w.
C13_ContentStatusFromWordCount ==
    CrawlClassified =>
        LET w == result.word_count
            status == result.content_status
        IN  /\ w \in Nat
            /\ status \in {"Thin", "Moderate", "Good"}
            /\ status = "Thin" <=> w < 300
            /\ status = "Moderate" <=> (300 <= w /\ w < 1000)
            /\ status = "Good" <=> w >= 1000
            /\ w = 299 => status = "Thin"
            /\ w = 300 => status = "Moderate"
            /\ w = 999 => status = "Moderate"
            /\ w = 1000 => status = "Good"

\* a page of exactly 300 words: 299 in a paragraph and one in a heading
C13_Witness ==
    /\ CrawlClassified
    /\ ~Page.title.tag
    /\ Page.nodes = <<Node("h2", "body", "none", "Section", 1),
                      Node("p", "body", "none", "lorem", 299)>>
    /\ result.word_count = 300
    /\ result.content_status = "Moderate"

\* the meta-description tag is absent, or its content attribute is missing or empty
NoMetaContent == ~Page.meta.tag \/ Page.meta.content = <<>> \/ Page.meta.content[1] = 0

\* C14: meta_desc_status is Good exactly when 150 <= meta_desc_length <= 160 and
\* Needs Fix otherwise; when the meta-description tag is absent or its content
\* attribute is missing or empty, meta_description is None and meta_desc_length
\* is 0, hence Needs Fix; otherwise meta_desc_length is the length of the content.
C14_MetaDescStatusFromLength ==
    CrawlClassified =>
        /\ result.meta_desc_status \in {"Good", "Needs Fix"}
        /\ result.meta_desc_status = "Good" <=>
               (150 <= result.meta_desc_length /\ result.meta_desc_length <= 160)
        /\ NoMetaContent =>
               /\ result.meta_description = None
               /\ result.meta_desc_length = 0
               /\ result.meta_desc_status = "Needs Fix"
        /\ ~NoMetaContent =>
               /\ result.meta_description = TextOfLen(Page.meta.content[1])
               /\ result.meta_desc_length = Page.meta.content[1]

\* a description of exactly 150 characters
C14_Witness ==
    /\ CrawlClassified
    /\ Page.meta = MetaTag(<<150>>)
    /\ result.meta_desc_length = 150
    /\ result.meta_desc_status = "Good"

\* C15: title_status is Good exactly when 50 <= title_length <= 60 and Needs Fix
\* otherwise; a page without a title element has title_tag None and title_length
\* 0; when a title is reported, title_length is the length of the reported text.
C15_TitleStatusFromLength ==
    CrawlClassified =>
        /\ result.title_status \in {"Good", "Needs Fix"}
        /\ result.title_status = "Good" <=>
               (50 <= result.title_length /\ result.title_length <= 60)
        /\ ~Page.title.tag =>
               /\ result.title_tag = None
               /\ result.title_length = 0
        /\ result.title_tag # None =>
               /\ Page.title.tag
               /\ result.title_tag = TextOfLen(Page.title.string[1].len)
               /\ result.title_length = result.title_tag.len
        /\ result.title_tag = None => result.title_length = 0

\* a title of exactly 60 characters
C15_Witness ==
    /\ CrawlClassified
    /\ Page.title = TitleTag(<<[len |-> 60, words |-> 1]>>)
    /\ result.title_tag = TextOfLen(60)
    /\ result.title_length = 60
    /\ result.title_status = "Good"

\* the images the result counts, and those of them with a given kind of alt attribute
CountedImages == FindAll(Decompose(Page.nodes), "img")
CountedWithAlt(kinds) == Len(SelectSeq(CountedImages, LAMBDA img : img.alt \in kinds))

\* C16: for every classified page, 0 <= images_without_alt <= images_total, and
\* images_without_alt plus the number of images whose alt attribute is present
\* and non-empty is images_total; an image whose alt attribute is missing or is
\* the empty string counts as without alt.
C16_ImagesWithoutAltWithinTotal ==
    CrawlClassified =>
        /\ 0 <= result.images_without_alt
        /\ result.images_without_alt <= result.images_total
        /\ result.images_without_alt + CountedWithAlt({"text"}) = result.images_total
        /\ result.images_without_alt = CountedWithAlt({"missing", "empty"})

\* one image with alt = "" and one with an alt text
C16_Witness ==
    /\ CrawlClassified
    /\ Page.nodes = <<Node("img", "body", "empty", "", 0), Node("img", "body", "text", "", 0)>>
    /\ result.images_total = 2
    /\ result.images_without_alt = 1

\* C17: images_total counts every img element of the fetched document, those
\* inside script, style, nav, footer and header elements included: removing the
\* non-content elements changes the body text and the word count only, not the
\* image counts, the heading counts or the title.
C17_RemovalLeavesImageCounts ==
    CrawlClassified =>
        /\ result.images_total = Len(FindAll(Page.nodes, "img"))
        /\ result.images_without_alt =
               Len(SelectSeq(FindAll(Page.nodes, "img"), LAMBDA img : img.alt # "text"))
        /\ result.h1_count = Len(FindAll(Page.nodes, "h1"))
        /\ result.h2_count = Len(FindAll(Page.nodes, "h2"))
        /\ result.h3_count = Len(FindAll(Page.nodes, "h3"))
        /\ result.h4_count = Len(FindAll(Page.nodes, "h4"))
        /\ Page.title.tag /\ Page.title.string # <<>> =>
               result.title_tag = TextOfLen(Page.title.string[1].len)

----------------------------------------------------------------------------
(* Properties of parse_response *)

ParseDone == op = "parse_response" /\ pc = "done"

\* the positions of the text that are not surrounding whitespace, and the number
\* of lines between the first and the last of them
Inner(text) ==
    {i \in 1 .. Len(text) :
         /\ \E j \in 1 .. i : text[j] \notin Whitespace
         /\ \E k \in i .. Len(text) : text[k] \notin Whitespace}
LineCount(text) == Cardinality({i \in Inner(text) : text[i] = "\n"}) + 1

\* C18: parse_response returns None and raises nothing for every text of fewer
\* than 2 lines after the surrounding whitespace is trimmed: the empty string, a
\* text of whitespace only, a header line alone, and a header line followed by
\* nothing but newlines.
C18_FewerThanTwoLinesGivesNone ==
    (ParseDone /\ LineCount(arg.text) < 2) =>
        /\ ~raised
        /\ result = None

\* a header line followed by two newlines
C18_Witness ==
    /\ ParseDone
    /\ arg.text = <<"a", ";", "\n", "\n">>
    /\ result = None

\* the pieces of text[lo .. hi] between the occurrences of sep, by position
Pieces(text, lo, hi, sep) ==
    LET breaks == {i \in lo .. hi : text[i] = sep}
        starts == {lo} \cup {b + 1 : b \in breaks}
        start(n) == CHOOSE s \in starts : Cardinality({t \in starts : t < s}) = n - 1
        end(s) == IF \E b \in breaks : b >= s
                  THEN (CHOOSE b \in breaks : b >= s /\ \A c \in breaks : c >= s => b <= c) - 1
                  ELSE hi
    IN  [n \in 1 .. Cardinality(starts) |-> SubSeq(text, start(n), end(start(n)))]

\* the lines of a text without its surrounding whitespace, and the fields of a line
TableLines(text) ==
    IF Inner(text) = {} THEN <<<<>>>>
    ELSE LET first == CHOOSE i \in Inner(text) : \A j \in Inner(text) : i <= j
             last == CHOOSE i \in Inner(text) : \A j \in Inner(text) : j <= i
         IN  Pieces(text, first, last, "\n")
Fields(line) == Pieces(line, 1, Len(line), ";")
HeaderNames == Fields(TableLines(arg.text)[1])
DataLine(i) == Fields(TableLines(arg.text)[i + 1])
DataLineCount == Len(TableLines(arg.text)) - 1

\* a header line and at least one data line, every one with as many fields as the header
IsFlatTable ==
    /\ DataLineCount >= 1
    /\ \A i \in 1 .. DataLineCount : Len(DataLine(i)) = Len(HeaderNames)

\* mapping is zip(names, values): the names are the keys, and a name is bound to
\* the value at its position (at its last position when it occurs twice)
IsZip(mapping, names, values) ==
    /\ DOMAIN mapping = {names[i] : i \in 1 .. Len(names)}
    /\ \A i \in 1 .. Len(names) :
           (\A j \in i + 1 .. Len(names) : names[j] # names[i]) =>
               mapping[names[i]] = values[i]

\* C19: for a flat table of one header line and N data lines, each with as many
\* fields as the header: with N = 1 parse_response returns one mapping, equal to
\* zip(headers, values), not a sequence of one; with N >= 2 it returns a
\* sequence of exactly N mappings in the order of the lines, the i-th equal to
\* zip(headers, values of data line i).
C19_OneMappingOrSequenceOfN ==
    (ParseDone /\ IsFlatTable) =>
        /\ ~raised
        /\ DataLineCount = 1 =>
               /\ result.t = "dict"
               /\ IsZip(result.v, HeaderNames, DataLine(1))
        /\ DataLineCount >= 2 =>
               /\ result.t = "list"
               /\ Len(result.v) = DataLineCount
               /\ \A i \in 1 .. DataLineCount : IsZip(result.v[i], HeaderNames, DataLine(i))

\* a header and two data lines of one field each
C19_Witness ==
    /\ ParseDone
    /\ arg.text = <<"a", "\n", " ", "\n", "a">>
    /\ IsFlatTable
    /\ DataLineCount = 2
    /\ result = List(<<(<<"a">> :> <<" ">>), (<<"a">> :> <<"a">>)>>)

Min(a, b) == IF a <= b THEN a ELSE b
Distinct(names) == \A i, j \in 1 .. Len(names) : names[i] = names[j] => i = j

\* the mapping returned for data line i
MappingOf(i) == IF result.t = "dict" THEN result.v ELSE result.v[i]

\* C20: fields are aligned by position and nothing is validated: for a data line
\* of v values against h distinct header names the mapping has exactly the first
\* min(h, v) header names as keys, the i-th of them bound to the i-th value;
\* values beyond the header are dropped, header names beyond the values are
\* absent from the mapping, and no error is raised.
C20_PositionalAlignment ==
    (ParseDone /\ DataLineCount >= 1 /\ Distinct(HeaderNames)) =>
        /\ ~raised
        /\ result.t = IF DataLineCount = 1 THEN "dict" ELSE "list"
        /\ \A i \in 1 .. DataLineCount :
               LET n == Min(Len(HeaderNames), Len(DataLine(i)))
               IN  /\ DOMAIN MappingOf(i) = {HeaderNames[j] : j \in 1 .. n}
                   /\ Cardinality(DOMAIN MappingOf(i)) = n
                   /\ \A j \in 1 .. n : MappingOf(i)[HeaderNames[j]] = DataLine(i)[j]

\* two header names, "a" and the empty name, against a data line of one value
C20_Witness ==
    /\ ParseDone
    /\ arg.text = <<"a", ";", "\n", "a">>
    /\ Len(HeaderNames) = 2
    /\ Len(DataLine(1)) = 1
    /\ result = Dict(<<"a">> :> <<"a">>)

----------------------------------------------------------------------------
(* Properties of make_request *)

MakeRequestDone == op = "make_request" /\ pc = "done"

\* C22: make_request takes a provider response as a success, and returns
\* parse_response(body), exactly when the status is 200 and the body does not
\* contain the literal substring ERROR; a 200 body with the word in lower or
\* mixed case only is still a success; in every other case, an exception
\* included, it returns None.
C22_SuccessUnlessLiteralError ==
    MakeRequestDone =>
        /\ ~raised
        /\ result =
               IF /\ Answer.kind = "response"
                  /\ Answer.status = 200
                  /\ ~Contains(ERROR, Answer.body.v)
               THEN parse_response(Answer.body.v)
               ELSE None

----------------------------------------------------------------------------
(* Properties of the outbound requests *)

\* the timeout the request must carry: 10 for the page fetch, 30 for the provider
RequiredTimeout == IF op = "crawl_website_onpage" THEN <<10>> ELSE <<30>>

\* C23: every outbound HTTP request carries a finite timeout of its own: 10 for
\* the page fetch of crawl_website_onpage and 30 for every request to the data
\* provider, the snapshot request of get_all_issues_summary and each page
\* request of the loop of get_issue_details included.
C23_EveryRequestHasTimeout ==
    \A i \in 1 .. Len(http_log) : http_log[i].timeout = RequiredTimeout

----------------------------------------------------------------------------
(* Termination of the pagination loop *)

\* the largest total the provider has reported in this invocation
LargestTotal ==
    LET totals == {ReportedTotal(served[i]) : i \in 1 .. Len(served)} \cup {0}
    IN  CHOOSE t \in totals : \A u \in totals : u <= t

MaxOf(a, b) == IF a >= b THEN a ELSE b

\* C26: the pagination loop of get_issue_details ends for every provider whose
\* answers all arrive and whose reported total never exceeds a bound T: every
\* pass that is not the last adds at least one record, so at most max(1, T)
\* page requests are issued, whatever the page sizes are and even when no page
\* is ever empty.
C26_AtMostTotalRequests ==
    InDetails =>
        /\ Len(http_log) <= MaxOf(1, LargestTotal)
        /\ pc = "get_issue_details" =>
               /\ Len(http_log) = current_page - 1
               /\ Len(all_pages) >= current_page - 1
               /\ current_page <= MaxOf(1, LargestTotal)
               /\ current_page < MaxPages

\* three pages of one record each, every one reporting a total of 3
C26_Witness ==
    /\ InDetails
    /\ pc = "done"
    /\ Len(http_log) = 3
    /\ \A i \in 1 .. 3 : Len(PageRecords(served[i])) = 1 /\ ReportedTotal(served[i]) = 3
    /\ Len(result[1]) = 3

----------------------------------------------------------------------------
(* get_all_issues_summary is all-or-nothing *)

\* an entry that lacks 'id' or 'count', or whose count is no number
IsBadEntry(entry) == ~({"id", "count"} \subseteq DOMAIN entry) \/ "count_is" \in DOMAIN entry
HasBadEntry ==
    /\ IsObjectAnswer
    /\ \E key \in SectionKeys \cap DOMAIN Answer.body.v :
           /\ Answer.body.v[key].t = "array"
           /\ \E i \in 1 .. Len(Answer.body.v[key].v) : IsBadEntry(Answer.body.v[key].v[i])

\* C30: get_all_issues_summary is all-or-nothing: its result is either the
\* records of every positive-count entry of all three sections with the
\* response's snapshot_id, or ([], None), never a part of the list; when an
\* entry of any section lacks 'id' or 'count' or has a count that cannot be
\* compared, the records built from earlier entries and the snapshot id already
\* read are dropped and ([], None) is returned.
C30_AllOrNothing ==
    SummaryDone =>
        /\ ~raised
        /\ \/ result = <<<<>>, None>>
           \/ /\ WellFormedAnswer
              /\ Len(result[1]) = Len(PositiveEntries)
              /\ \A i \in 1 .. Len(PositiveEntries) :
                     result[1][i].issue_id = PositiveEntries[i].entry.id
              /\ result[2] = GetSnapshotId(Answer.body.v)
        /\ HasBadEntry => result = <<<<>>, None>>

\* a snapshot id and an error with a positive count, then a warning whose count is null
C30_Witness ==
    /\ SummaryDone
    /\ IsObjectAnswer
    /\ Answer.body.v = SummaryObject(<<Str("S1")>>,
                                     <<ArrayValue(<<[id |-> 101, count |-> 2]>>)>>,
                                     <<ArrayValue(<<[id |-> 101, count |-> 0, count_is |-> "null"]>>)>>,
                                     <<>>)
    /\ result = <<<<>>, None>>

----------------------------------------------------------------------------
(* Properties of the site-audit endpoints *)

IssuesEndpointDone == op = "get_site_audit_issues" /\ pc = "done"

\* the fetch succeeded, and the snapshot holds an issue with a positive count
SummaryListNonEmpty == WellFormedAnswer /\ PositiveEntries # <<>>
\* the response has a snapshot id, and not an empty one
SnapshotIdPresent ==
    /\ IsObjectAnswer
    /\ "snapshot_id" \in DOMAIN Answer.body.v
    /\ Answer.body.v.snapshot_id.v # ""

\* C25: /api/site-audit/issues answers success = true, with data and
\* snapshot_id, exactly when the summary list is not empty and the snapshot id
\* is present; a successful fetch of a snapshot without positive-count issues
\* gives the very response of a failed fetch (success = false, same message),
\* so that the caller cannot tell the two causes apart.
C25_EmptyAndFailedAlike ==
    IssuesEndpointDone =>
        /\ ~raised
        /\ result.success <=> (SummaryListNonEmpty /\ SnapshotIdPresent)
        /\ result.success =>
               /\ DOMAIN result = {"success", "data", "snapshot_id"}
               /\ Len(result.data) = Len(PositiveEntries)
               /\ result.snapshot_id = Answer.body.v.snapshot_id
        /\ ~result.success =>
               result = [success |-> FALSE,
                         message |-> "No issues found or error fetching issues"]

\* a snapshot fetched with its id, whose only entry has count 0
C25_Witness ==
    /\ IssuesEndpointDone
    /\ IsObjectAnswer
    /\ Answer.body.v = SummaryObject(<<Str("S1")>>, <<ArrayValue(<<[id |-> 101, count |-> 0]>>)>>,
                                     <<>>, <<>>)
    /\ result = [success |-> FALSE, message |-> "No issues found or error fetching issues"]

DetailsEndpoint == op = "get_site_audit_issue_details"
NoIssueId == arg.request.issue_id = <<>> \/ arg.request.issue_id[1] = 0

\* the snapshot id the summary request yields: None when the summary fails
YieldedSnapshotId ==
    IF WellFormedAnswer /\ "snapshot_id" \in DOMAIN Answer.body.v
    THEN Answer.body.v.snapshot_id ELSE None
NoSnapshotId == YieldedSnapshotId = None \/ YieldedSnapshotId.v = ""

\* C27: /api/site-audit/issue-details makes no provider request when issue_id is
\* missing (HTTP 400 is raised first); otherwise the snapshot request is
\* answered before the first issue-detail page request, every detail request
\* uses the snapshot id that the snapshot request returned, and no detail
\* request is made when the summary yields no snapshot id.
C27_SnapshotBeforeDetails ==
    DetailsEndpoint =>
        /\ NoIssueId =>
               /\ http_log = <<>>
               /\ pc = "done"
               /\ raised
               /\ result.status_code = 400
        /\ ~NoIssueId =>
               /\ Len(http_log) >= 1
               /\ Len(served) = Len(http_log)
               /\ http_log[1].url = SummaryUrl(PROJECT_ID)
               /\ \A i \in 2 .. Len(http_log) :
                      /\ ~NoSnapshotId
                      /\ http_log[i].url =
                             DetailUrl(PROJECT_ID, YieldedSnapshotId, arg.request.issue_id[1])
                      /\ http_log[i].params.page = i - 1
               /\ NoSnapshotId =>
                      /\ Len(http_log) = 1
                      /\ pc = "done"
                      /\ result = [success |-> FALSE, message |-> "Could not retrieve snapshot ID"]

\* the snapshot request, then two page requests under the snapshot id it returned
C27_Witness ==
    /\ DetailsEndpoint
    /\ pc = "done"
    /\ Len(http_log) = 3
    /\ YieldedSnapshotId = Str("S1")
    /\ http_log[3].url = DetailUrl(PROJECT_ID, Str("S1"), 101)
    /\ result.success
    /\ result.snapshot_id = Str("S1")
    /\ result.issue_name = "Title element is too short"

----------------------------------------------------------------------------
(* Properties of /api/backlinks/referring-domains *)

ReferringDomainsDone == op = "get_referring_domains" /\ pc = "done"

\* the scores on the data lines of the answered report, in line order
ReportedScores ==
    LET text == Answer.body.v
        at == {i \in 1 .. Len(text) : text[i] \in ScoreTokens}
        nth(n) == CHOOSE i \in at : Cardinality({j \in at : j < i}) = n - 1
    IN  [n \in 1 .. Cardinality(at) |-> Float(<<text[nth(n)]>>)]
ScoresIn(lo, hi) == Len(SelectSeq(ReportedScores, LAMBDA x : lo <= x /\ x < hi))

\* C28: when the provider answers 200 with a header line and k >= 1 data lines
\* of numeric domain_ascore values, /api/backlinks/referring-domains answers
\* success with analysis.total = k and toxic + potentially_toxic + healthy = k,
\* every record in one class (toxic below 30, potentially toxic from 30 and
\* below 50, healthy from 50), for k = 1 as for k >= 2.
C28_EveryDomainClassified ==
    (/\ ReferringDomainsDone
     /\ Answer.kind = "response"
     /\ Answer.status = 200
     /\ Len(ReportedScores) >= 1) =>
        /\ ~raised
        /\ result.success
        /\ result.analysis.total = Len(ReportedScores)
        /\ result.analysis.toxic = ScoresIn(0, 30)
        /\ result.analysis.potentially_toxic = ScoresIn(30, 50)
        /\ result.analysis.healthy = ScoresIn(50, 101)
        /\ result.analysis.toxic + result.analysis.potentially_toxic
               + result.analysis.healthy = Len(ReportedScores)

----------------------------------------------------------------------------
(* Properties of /api/complete-analysis *)

AnalysisDone == op = "complete_analysis" /\ pc = "done"
AnalysisKeys ==
    {"domain_overview", "organic_keywords", "competitors", "backlinks_overview",
     "onpage_analysis"}
\* the snapshot request, the last of the six, yields a non-empty issue list
AnalysisHasIssues ==
    /\ served[6].kind = "response"
    /\ served[6].status = 200
    /\ "errors" \in DOMAIN served[6].body.v
    /\ \E i \in 1 .. Len(served[6].body.v.errors.v) : served[6].body.v.errors.v[i].count > 0

\* C29: complete_analysis answers success = true with a data object that holds
\* the keys domain_overview, organic_keywords, competitors, backlinks_overview
\* and onpage_analysis under every combination of outcomes of its sub-requests
\* (a failed or non-200 sub-request gives a null value or a failure record,
\* never a missing key or an exception that escapes); the key site_audit is
\* there exactly when the issue summary list is not empty.
C29_AllKeysAlways ==
    AnalysisDone =>
        /\ ~raised
        /\ result.success
        /\ AnalysisKeys \subseteq DOMAIN result.data
        /\ "site_audit" \in DOMAIN result.data <=> AnalysisHasIssues

----------------------------------------------------------------------------
(* The ranking behind the top issues of the recommendation prompt *)

RecommendationsDone == pc = "done" /\ op = "generate_ai_recommendations"

GivenIssues ==
    IF arg.site_audit_data = <<>> THEN <<>> ELSE arg.site_audit_data[1].issues
ListedIssues == result.audit_context.top
ListedNames == {ListedIssues[i].issue_name : i \in DOMAIN ListedIssues}

RankOf(issue) ==
    CASE issue.severity = "Error" -> 0
      [] issue.severity = "Warning" -> 1
      [] issue.severity = "Notice" -> 2

Outranks(a, b) ==
    \/ RankOf(a) < RankOf(b)
    \/ RankOf(a) = RankOf(b) /\ a.count > b.count

\* C21: the issues listed in the prompt are the first 10 of the given issues
\* ordered by severity rank (Error, Warning, Notice) and, within a severity,
\* by affected-page count descending: the list is in that order, it holds
\* min(10, n) of the given issues, and no issue left out outranks a listed one
C21_TopTenOfRanking ==
    RecommendationsDone =>
        /\ Len(ListedIssues) = Min(10, Len(GivenIssues))
        /\ \A i \in DOMAIN ListedIssues :
               \E j \in DOMAIN GivenIssues :
                   /\ GivenIssues[j].issue_name = ListedIssues[i].issue_name
                   /\ GivenIssues[j].severity = ListedIssues[i].severity
                   /\ GivenIssues[j].count = ListedIssues[i].count
        /\ \A i, j \in DOMAIN ListedIssues :
               /\ i < j => ~Outranks(ListedIssues[j], ListedIssues[i])
               /\ i # j => ListedIssues[i].issue_name # ListedIssues[j].issue_name
        /\ \A j \in DOMAIN GivenIssues :
               GivenIssues[j].issue_name \notin ListedNames
                   => \A i \in DOMAIN ListedIssues : ~Outranks(GivenIssues[j], ListedIssues[i])

\* more than 10 issues were given, the last of them is an Error that is
\* listed, one of the first 10 is left out, and the list holds two issues of
\* one severity with different counts
C21_Witness ==
    /\ RecommendationsDone
    /\ Len(GivenIssues) > 10
    /\ GivenIssues[Len(GivenIssues)].severity = "Error"
    /\ GivenIssues[Len(GivenIssues)].issue_name \in ListedNames
    /\ \E j \in 1..10 : GivenIssues[j].issue_name \notin ListedNames
    /\ \E i, j \in DOMAIN ListedIssues :
           ListedIssues[i].severity = ListedIssues[j].severity /\ ListedIssues[i].count > ListedIssues[j].count

----------------------------------------------------------------------------
(* Concurrent invocations of the core operations.  In SpecConcurrent every  *)
(* variable holds one value per invocation: pc[i], op[i], arg[i],           *)
(* http_log[i], served[i], result[i] and raised[i] belong to invocation i,  *)
(* and all_pages[f] and current_page[f] are the locals of call frame f.     *)
(* The issue taxonomy and the configuration are definitions, which no       *)
(* action can change.  The invocations are exercised with a few answers    *)
(* of each kind.                                                            *)

Invocations == {1, 2}

Frame_Shared(i) == 1

\* all_pages = [] and current_page = 1 are locals of the call: each
\* invocation has a frame of its own
Frame(i) == i

ConcurrentInit ==
    /\ pc = [i \in Invocations |-> "idle"]
    /\ op = [i \in Invocations |-> "none"]
    /\ arg = [i \in Invocations |-> NoArg]
    /\ http_log = [i \in Invocations |-> <<>>]
    /\ served = [i \in Invocations |-> <<>>]
    /\ all_pages = [f \in Invocations |-> <<>>]
    /\ current_page = [f \in Invocations |-> 0]
    /\ result = [i \in Invocations |-> None]
    /\ raised = [i \in Invocations |-> FALSE]

\* invocation i is entered with its arguments
Enter(i, name, a) ==
    /\ pc[i] = "idle"
    /\ op' = [op EXCEPT ![i] = name]
    /\ arg' = [arg EXCEPT ![i] = a]

FinishOf(i, r) ==
    /\ pc' = [pc EXCEPT ![i] = "done"]
    /\ result' = [result EXCEPT ![i] = IF r.ctl = "raise" THEN r.exc ELSE r.value]
    /\ raised' = [raised EXCEPT ![i] = (r.ctl = "raise")]

DetailRequest(a, page) ==
    Request(DetailUrl(a.project_id, a.snapshot_id, a.issue_id),
            [key |-> "SEMRUSH_API_KEY", limit |-> a.limit, page |-> page], NoTimeout)

ConcurrentCallGetIssueDetails ==
    \E i \in Invocations, snapshot_id \in SnapshotIds, issue_id \in IssueIds :
        /\ Enter(i, "get_issue_details",
                 [project_id |-> PROJECT_ID, snapshot_id |-> snapshot_id,
                  issue_id |-> issue_id, limit |-> 100])
        /\ pc' = [pc EXCEPT ![i] = "get_issue_details"]
        /\ all_pages' = [all_pages EXCEPT ![Frame(i)] = <<>>]
        /\ current_page' = [current_page EXCEPT ![Frame(i)] = 1]
        /\ UNCHANGED <<http_log, served, result, raised>>

ConcurrentGetIssueDetailsPage ==
    \E i \in Invocations :
        /\ pc[i] = "get_issue_details"
        /\ current_page[Frame(i)] <= MaxPages
        /\ LET req == DetailRequest(arg[i], current_page[Frame(i)])
               \* one record on the page, and a grand total of 1 to 3
               answers ==
                   {resp \in DetailResponses(req) :
                       \/ resp.kind = "ConnectionError"
                       \/ /\ resp.status = 200
                          /\ resp.body.t = "object"
                          /\ DOMAIN resp.body.v = {"data", "total"}
                          /\ Len(resp.body.v.data) = 1
                          /\ resp.body.v.total \in 1 .. 3}
           IN  \E resp \in answers :
                   LET r == get_issue_details_step(all_pages[Frame(i)],
                                                   current_page[Frame(i)], resp)
                   IN  /\ http_log' = [http_log EXCEPT ![i] = Append(@, req)]
                       /\ served' = [served EXCEPT ![i] = Append(@, resp)]
                       /\ IF r.ctl = "continue"
                          THEN /\ all_pages' = [all_pages EXCEPT ![Frame(i)] = r.all_pages]
                               /\ current_page' =
                                      [current_page EXCEPT ![Frame(i)] = r.current_page]
                               /\ UNCHANGED <<pc, result, raised>>
                          ELSE /\ FinishOf(i, r)
                               /\ all_pages' =
                                      [all_pages EXCEPT ![Frame(i)] =
                                          IF "all_pages" \in DOMAIN r THEN r.all_pages ELSE @]
                               /\ UNCHANGED current_page
        /\ UNCHANGED <<op, arg>>

ConcurrentGetAllIssuesSummary ==
    \E i \in Invocations :
        LET req == Request(SummaryUrl(PROJECT_ID), [key |-> "SEMRUSH_API_KEY"], NoTimeout)
            answers ==
                {resp \in BriefSummaryAnswers(req) :
                    \/ resp.kind = "ConnectionError"
                    \/ /\ resp.status = 200
                       /\ resp.body.t = "object"
                       /\ "snapshot_id" \in DOMAIN resp.body.v
                       /\ resp.body.v.snapshot_id \in SnapshotIds}
        IN  \E resp \in answers :
                /\ Enter(i, "get_all_issues_summary", [project_id |-> PROJECT_ID])
                /\ http_log' = [http_log EXCEPT ![i] = Append(@, req)]
                /\ served' = [served EXCEPT ![i] = Append(@, resp)]
                /\ FinishOf(i, get_all_issues_summary(resp))
                /\ UNCHANGED <<all_pages, current_page>>

ConcurrentCrawlWebsiteOnpage ==
    \E i \in Invocations :
        LET domain == <<"example.com">>
            req == Request(CrawlUrl(domain), EmptyObject, <<CRAWL_TIMEOUT>>)
            answers ==
                {resp \in CrawlResponses(req) :
                    \/ resp.kind = "Timeout"
                    \/ resp.kind = "response" /\ resp.status = 404
                    \/ /\ resp.status = 200
                       /\ resp.body.t = "html"
                       /\ resp.body.nodes = <<>>
                       /\ resp.body.meta = NoMeta}
        IN  \E resp \in answers :
                /\ Enter(i, "crawl_website_onpage", [domain |-> domain])
                /\ http_log' = [http_log EXCEPT ![i] = Append(@, req)]
                /\ served' = [served EXCEPT ![i] = Append(@, resp)]
                /\ FinishOf(i, crawl_website_onpage(resp))
                /\ UNCHANGED <<all_pages, current_page>>

ConcurrentParseResponse ==
    \E i \in Invocations,
       text \in {<<>>, <<"a", ";", "a", "\n", "a">>, <<"a", "\n", "a", "\n", "a">>} :
        /\ Enter(i, "parse_response", [text |-> text])
        /\ FinishOf(i, Return(parse_response(text)))
        /\ UNCHANGED <<http_log, served, all_pages, current_page>>

ConcurrentMakeRequest ==
    \E i \in Invocations, report_type \in ReportTypes :
        LET req == Request(BASE_URL, [key |-> "SEMRUSH_API_KEY", type |-> report_type],
                           <<PROVIDER_TIMEOUT>>)
            answers ==
                {resp \in MakeRequestResponses(req) :
                    \/ resp.kind = "Timeout"
                    \/ resp.status = 200 /\ resp.body.v \in {<<"a", "\n", "a">>, ERROR}}
        IN  \E resp \in answers :
                /\ Enter(i, "make_request", [url |-> BASE_URL, report_type |-> report_type])
                /\ http_log' = [http_log EXCEPT ![i] = Append(@, req)]
                /\ served' = [served EXCEPT ![i] = Append(@, resp)]
                /\ FinishOf(i, make_request(resp))
                /\ UNCHANGED <<all_pages, current_page>>

\* invocation i has returned; its frame is gone
ConcurrentReturnToCaller ==
    \E i \in Invocations :
        /\ pc[i] = "done"
        /\ pc' = [pc EXCEPT ![i] = "idle"]
        /\ op' = [op EXCEPT ![i] = "none"]
        /\ arg' = [arg EXCEPT ![i] = NoArg]
        /\ http_log' = [http_log EXCEPT ![i] = <<>>]
        /\ served' = [served EXCEPT ![i] = <<>>]
        /\ all_pages' = [all_pages EXCEPT ![Frame(i)] = <<>>]
        /\ current_page' = [current_page EXCEPT ![Frame(i)] = 0]
        /\ result' = [result EXCEPT ![i] = None]
        /\ raised' = [raised EXCEPT ![i] = FALSE]

ConcurrentNext ==
    \/ ConcurrentCallGetIssueDetails
    \/ ConcurrentGetIssueDetailsPage
    \/ ConcurrentGetAllIssuesSummary
    \/ ConcurrentCrawlWebsiteOnpage
    \/ ConcurrentParseResponse
    \/ ConcurrentMakeRequest
    \/ ConcurrentReturnToCaller

SpecConcurrent == ConcurrentInit /\ [][ConcurrentNext]_vars

----------------------------------------------------------------------------
(* Concurrent invocations do not interfere *)

\* the locals and the outcome of one invocation
Local(p, log, pages, page, r) ==
    [pc |-> p, http_log |-> log, all_pages |-> pages, current_page |-> page, outcome |-> r]

NoOutcome == [ctl |-> "none"]

\* get_issue_details with the arguments a, run on its own against the answers
RECURSIVE DetailsAlone(_, _, _)
DetailsAlone(a, local, answers) ==
    IF answers = <<>> THEN local
    ELSE IF local.pc # "get_issue_details" THEN [local EXCEPT !.pc = "no request left"]
    ELSE LET r == get_issue_details_step(local.all_pages, local.current_page, answers[1])
             log == Append(local.http_log, DetailRequest(a, local.current_page))
         IN  DetailsAlone(a,
                 IF r.ctl = "continue"
                 THEN Local("get_issue_details", log, r.all_pages, r.current_page, NoOutcome)
                 ELSE Local("done", log,
                            IF "all_pages" \in DOMAIN r THEN r.all_pages ELSE local.all_pages,
                            local.current_page, r),
                 Tail(answers))

\* the operation name with the arguments a, run on its own against the answers
Alone(name, a, answers) ==
    CASE name = "none" -> Local("idle", <<>>, <<>>, 0, NoOutcome)
      [] name = "get_issue_details" ->
             DetailsAlone(a, Local("get_issue_details", <<>>, <<>>, 1, NoOutcome), answers)
      [] name = "get_all_issues_summary" ->
             Local("done",
                   <<Request(SummaryUrl(a.project_id), [key |-> "SEMRUSH_API_KEY"], NoTimeout)>>,
                   <<>>, 0, get_all_issues_summary(answers[1]))
      [] name = "crawl_website_onpage" ->
             Local("done", <<Request(CrawlUrl(a.domain), EmptyObject, <<CRAWL_TIMEOUT>>)>>,
                   <<>>, 0, crawl_website_onpage(answers[1]))
      [] name = "parse_response" ->
             Local("done", <<>>, <<>>, 0, Return(parse_response(a.text)))
      [] name = "make_request" ->
             Local("done",
                   <<Request(a.url, [key |-> "SEMRUSH_API_KEY", type |-> a.report_type],
                             <<PROVIDER_TIMEOUT>>)>>,
                   <<>>, 0, make_request(answers[1]))

SameAsAlone(i) ==
    LET alone == Alone(op[i], arg[i], served[i])
    IN  /\ pc[i] = alone.pc
        /\ http_log[i] = alone.http_log
        /\ all_pages[i] = alone.all_pages
        /\ current_page[i] = alone.current_page
        /\ pc[i] = "done" =>
               /\ raised[i] = (alone.outcome.ctl = "raise")
               /\ raised[i] => result[i] = alone.outcome.exc
               /\ ~raised[i] => result[i] = alone.outcome.value

\* C24: under every interleaving of two concurrent invocations of the core
\* operations, each invocation is at every moment where it would be had it run
\* alone against the answers it was served: it has made the same requests, its
\* page counter and accumulator hold the same values, and it returns the same
\* result
C24_InvocationsIsolated == \A i \in Invocations : SameAsAlone(i)

\* both invocations are inside get_issue_details at once, one about to ask for
\* page 3 and the other for page 2
C24_Witness ==
    /\ pc[1] = "get_issue_details" /\ current_page[1] = 3 /\ Len(all_pages[1]) = 2
    /\ pc[2] = "get_issue_details" /\ current_page[2] = 2 /\ Len(all_pages[2]) = 1

====
